---- MODULE Spec2Model ----
(***************************************************************************)
(* Inventory service: the ledger (PostgreSQL table "inventory"), the       *)
(* read-through cache (Redis) and the four request handlers get_item,     *)
(* reserve_stock, release_stock and adjust_stock, each split at its        *)
(* await points so that requests interleave as the async runtime allows.  *)
(***************************************************************************)
EXTENDS Integers, FiniteSets, Sequences, TLC

\* ------------------------------------------------------------------ bounds
NumReqs == 2                    \* request tasks in flight at once
MaxQty  == 2                    \* largest initial quantity of a row
MaxReq  == 2                    \* largest quantity / delta a request carries
MaxVer  == 2                    \* committed mutations per row that are explored

CacheTtl == 300                 \* seconds an entry written by get_item lives

Reqs    == 1..NumReqs
Stocked == {"X"}                \* skus that have a row when the service starts
Amounts == (-1)..MaxReq         \* i32 request field, sign unchecked by the handlers
Ops     == {"get", "reserve", "release", "adjust"}

VARIABLES
    ledger,     \* committed rows of table inventory, by sku
    ledger0,    \* the rows as they were when the service started
    lock,       \* row lock holder per sku (0: unlocked)
    cache,      \* Redis: key inventory:<sku> -> JSON text or NoEntry
    pc,         \* position of each request task
    req,        \* the request each task is serving
    item,       \* the row a task has read (SELECT / RETURNING)
    tx,         \* the row written by a task's open transaction, not yet committed
    resp,       \* the HTTP response a task has produced
    wrote,      \* the row version a task's mutation committed (0: none)
    returned,   \* per sku: newest row version whose mutation has been answered
    floor,      \* per task: returned[sku] when its get_item started
    cacheErr,   \* per task: a Redis call of the request has failed
    clock,      \* the time: now, and when each open transaction began
    metrics     \* per task: what its reserve handler gave to the metrics recorder

vars == <<ledger, ledger0, lock, cache, pc, req, item, tx, resp, wrote, returned, floor,
          cacheErr, clock, metrics>>

Known   == DOMAIN ledger         \* skus that have a row in the table
Skus    == Known \cup {"Z"}      \* "Z" has no row

max_connections == 10           \* PgPoolOptions::max_connections

NoLock  == 0
NoText  == <<>>                                 \* Option::None of a GET
NoEntry == [text |-> NoText, ttl |-> 0]         \* the key does not exist
Garbage == <<"garbage">>                        \* a text that is no InventoryItem
NoItem  == [sku |-> "", quantity |-> 0, reserved |-> 0, ver |-> 0]
NoReq   == [op |-> "none", sku |-> "", amount |-> 0]

Max(a, b) == IF a >= b THEN a ELSE b

\* ------------------------------------------------------------ table rules
\* valid_reserved without its upper bound
CheckConstraintsNoUpper(row) ==
    /\ row.quantity >= 0
    /\ row.reserved >= 0

\* CONSTRAINT positive_quantity, CONSTRAINT valid_reserved
CheckConstraints(row) ==
    /\ row.quantity >= 0
    /\ row.reserved >= 0 /\ row.reserved <= row.quantity

\* GREATEST(a, b) of SQL
Greatest(a, b) == IF a >= b THEN a ELSE b

\* the check made against quantity alone
availableIgnoresReserved(it) == it.quantity

\* InventoryItem::available
available(it) == it.quantity - it.reserved

\* ------------------------------------------------------- JSON conversions
\* serde_json::to_string(&item): the text kept under the cache key
to_string(it) == <<"json", it>>

\* serde_json::from_str::<InventoryItem>: Ok(item) or Err
from_str(txt) ==
    IF Len(txt) = 2 /\ txt[1] = "json"
    THEN [ok |-> TRUE, item |-> txt[2]]
    ELSE [ok |-> FALSE, item |-> NoItem]

\* ------------------------------------------------------------ error values
\* anyhow errors raised by the Database methods
ErrSkuNotFound(sku) == [text |-> "SKU not found", sku |-> sku,
                        available |-> 0, requested |-> 0]
\* the two numbers of the message in the wrong places
ErrInsufficientSwapped(a, q) == [text |-> "Insufficient stock", sku |-> "",
                                 available |-> q, requested |-> a]
ErrInsufficient(a, q) == [text |-> "Insufficient stock", sku |-> "",
                          available |-> a, requested |-> q]
ErrReleaseFailed == [text |-> "Failed to release stock", sku |-> "",
                     available |-> 0, requested |-> 0]
\* sqlx::Error raised by PostgreSQL when an UPDATE breaks a CHECK constraint
ErrCheckViolation == [text |-> "violates check constraint", sku |-> "",
                      available |-> 0, requested |-> 0]
NoMessage == [text |-> "", sku |-> "", available |-> 0, requested |-> 0]

\* AppError variants
NotFound(msg)   == [kind |-> "NotFound", msg |-> msg]
BadRequest(msg) == [kind |-> "BadRequest", msg |-> msg]
Internal(msg)   == [kind |-> "Internal", msg |-> msg]

\* impl From<anyhow::Error> for AppError
FromAnyhow(e) == Internal(e)

\* impl IntoResponse for AppError
into_response(err) ==
    CASE err.kind = "NotFound" ->
           [status |-> 404, error |-> "NOT_FOUND", message |-> err.msg, item |-> NoItem]
      [] err.kind = "BadRequest" ->
           [status |-> 400, error |-> "BAD_REQUEST", message |-> err.msg, item |-> NoItem]
      [] err.kind = "InsufficientStock" ->
           [status |-> 409, error |-> "INSUFFICIENT_STOCK", message |-> err.msg, item |-> NoItem]
      [] err.kind = "Database" ->
           [status |-> 500, error |-> "DATABASE_ERROR", message |-> NoMessage, item |-> NoItem]
      [] err.kind = "Redis" ->
           [status |-> 500, error |-> "CACHE_ERROR", message |-> NoMessage, item |-> NoItem]
      [] OTHER ->
           [status |-> 500, error |-> "INTERNAL_ERROR", message |-> err.msg, item |-> NoItem]

\* no response produced yet
NoResp == [status |-> 0, error |-> "", message |-> NoMessage, item |-> NoItem]

\* Ok(Json(item)) of get_item and adjust_stock
OkResponse(it) == [status |-> 200, error |-> "", message |-> NoMessage, item |-> it]

\* Ok(Json(reservation)) of reserve_stock: ReservationResponse {sku, quantity, ..}
OkReservation(s, q) ==
    [status |-> 200, error |-> "", message |-> NoMessage,
     item |-> [sku |-> s, quantity |-> q, reserved |-> 0, ver |-> 0]]

\* Ok(Json({"status": "released", "sku": .., "quantity": ..})) of release_stock
OkReleased(s, q) ==
    [status |-> 200, error |-> "released", message |-> NoMessage,
     item |-> [sku |-> s, quantity |-> q, reserved |-> 0, ver |-> 0]]

\* ---------------------------------------------------------------- metrics
\* nothing recorded yet for a request
NoMetrics == [http |-> <<>>, reservations |-> <<>>]

\* metrics.rs record_http_request: one more request counted under the status
record_http_request(m, status) == [m EXCEPT !.http = Append(@, status)]

\* metrics.rs record_reservation: one more reservation counted under
\* "success" or "failed"
record_reservation(m, success) ==
    [m EXCEPT !.reservations = Append(@, IF success THEN "success" ELSE "failed")]

\* handlers.rs reserve_stock, Ok arm of the match: what is recorded before
\* the cache entry is deleted
OkArm(r) ==
    metrics' = [metrics EXCEPT ![r] =
                   IF @ = NoMetrics
                   THEN record_reservation(record_http_request(@, 200), TRUE)
                   ELSE @]

\* handlers.rs reserve_stock, Err arm of the match: what is recorded when
\* the step ends the call with an error
ErrArm(r) ==
    metrics' = [metrics EXCEPT ![r] =
                   IF pc'[r] = "done" /\ req[r].op = "reserve"
                   THEN record_reservation(record_http_request(@, 409), FALSE)
                   ELSE @]

\* --------------------------------------------------------------------- time
\* the time at which the service starts
Epoch == [now |-> 0]

\* ------------------------------------------------------------------- Init
\* rows the table can hold when the service starts: 0 <= reserved <= quantity
Rows == {row \in [sku : {"X", "Y"}, quantity : 0..MaxQty, reserved : 0..MaxQty, ver : {0}] :
            row.reserved <= row.quantity}

Init ==
    /\ ledger \in {l \in [Stocked -> Rows] : \A s \in Stocked : l[s].sku = s}
    /\ ledger0 = ledger
    /\ lock = [s \in Known |-> NoLock]
    /\ cache \in {c \in [Skus -> {NoEntry, [text |-> Garbage, ttl |-> CacheTtl]}] :
                     \A s \in Skus \ Known : c[s] = NoEntry}
    /\ pc = [r \in Reqs |-> "idle"]
    /\ req = [r \in Reqs |-> NoReq]
    /\ item = [r \in Reqs |-> NoItem]
    /\ tx = [r \in Reqs |-> NoItem]
    /\ resp = [r \in Reqs |-> NoResp]
    /\ wrote = [r \in Reqs |-> 0]
    /\ returned = [s \in Skus |-> 0]
    /\ floor = [r \in Reqs |-> 0]
    /\ cacheErr = [r \in Reqs |-> FALSE]
    /\ clock = Epoch
    /\ metrics = [r \in Reqs |-> NoMetrics]

\* ---------------------------------------------------------------- helpers
Answer(r, response) ==
    /\ resp' = [resp EXCEPT ![r] = response]
    /\ pc' = [pc EXCEPT ![r] = "done"]

\* a mutation of sku s that produced row version v has been answered
NoteReturned(s, v) == returned' = [returned EXCEPT ![s] = Max(@, v)]

\* -------------------------------------------------------- connection pool
\* positions at which a task holds a pooled connection: from pool.begin() to
\* the end of the transaction
Holding == {"rs_select", "rs_check", "rs_commit", "rs_dropped", "rs_committing"}

\* connections checked out of the pool
InUse == Cardinality({r \in DOMAIN pc : pc[r] \in Holding})

\* pool.acquire() returns at once: a connection is idle or may be opened
PoolHasRoom == InUse < max_connections

\* --------------------------------------------------------- request arrival
Mutating(r) == pc[r] \in {"rs_begin", "rs_select", "rs_check", "rs_commit", "rl_update", "ad_update"}

\* room left under MaxVer for one more mutation of sku s
Room(s) ==
    s \in Known =>
        ledger[s].ver + Cardinality({r \in DOMAIN pc : Mutating(r) /\ req[r].sku = s}) < MaxVer

\* axum dispatches a request to its handler
Start(r) ==
    /\ pc[r] = "idle"
    /\ \E op \in Ops, s \in Skus, a \in Amounts :
          /\ op = "get" => a = 0
          /\ (op # "get" /\ s \notin Known) => a = 1
          /\ op # "get" => Room(s)
          /\ req' = [req EXCEPT ![r] = [op |-> op, sku |-> s, amount |-> a]]
          /\ pc' = [pc EXCEPT ![r] =
                      CASE op = "get" -> "gt_cache"
                        [] op = "reserve" -> "rs_begin"
                        [] op = "release" -> "rl_update"
                        [] OTHER -> "ad_update"]
          /\ floor' = [floor EXCEPT ![r] = IF op = "get" THEN returned[s] ELSE 0]
    /\ UNCHANGED <<ledger, ledger0, clock, metrics, lock, cache, item, tx, resp, wrote, returned, cacheErr>>

\* the response has been written to the caller; the task ends
Finish(r) ==
    /\ pc[r] = "done"
    /\ pc' = [pc EXCEPT ![r] = "idle"]
    /\ req' = [req EXCEPT ![r] = NoReq]
    /\ item' = [item EXCEPT ![r] = NoItem]
    /\ resp' = [resp EXCEPT ![r] = NoResp]
    /\ wrote' = [wrote EXCEPT ![r] = 0]
    /\ floor' = [floor EXCEPT ![r] = 0]
    /\ cacheErr' = [cacheErr EXCEPT ![r] = FALSE]
    /\ UNCHANGED <<ledger, ledger0, clock, lock, cache, tx, returned>>
    /\ metrics' = [metrics EXCEPT ![r] = NoMetrics]

\* ------------------------------------------------------------------ cache
\* redis DEL inventory:<sku>; the result is discarded (let _ = ...)
CacheDel(s, ok) == cache' = IF ok THEN [cache EXCEPT ![s] = NoEntry] ELSE cache

\* redis SET inventory:<sku> <json>: the entry never expires
CacheSetNoExpiry(s, ttl, txt, ok) ==
    cache' = IF ok THEN [cache EXCEPT ![s] = [text |-> txt, ttl |-> 0]] ELSE cache

\* redis SETEX inventory:<sku> <ttl> <json>; the result is discarded
CacheSetex(s, ttl, txt, ok) ==
    cache' = IF ok THEN [cache EXCEPT ![s] = [text |-> txt, ttl |-> ttl]] ELSE cache

\* redis GET inventory:<sku> followed by .ok(): Some(text) or None
CacheGet(s, ok) == IF ok THEN cache[s].text ELSE NoText

\* task r notes the outcome of a Redis call
NoteCache(r, ok) == cacheErr' = [cacheErr EXCEPT ![r] = @ \/ ~ok]

\* the 300 s TTL of an entry runs out
CacheExpire(s) ==
    /\ cache[s] # NoEntry
    /\ cache' = [cache EXCEPT ![s] = NoEntry]
    /\ UNCHANGED <<ledger, ledger0, clock, metrics, lock, pc, req, item, tx, resp, wrote, returned, floor, cacheErr>>

\* --------------------------------------------------------------- get_item
\* get_item reading the table on a hit too and answering with the row
GtCacheRevalidates(r) ==
    /\ pc[r] = "gt_cache"
    /\ \E ok \in BOOLEAN :
          LET cached == CacheGet(req[r].sku, ok)
              parsed == from_str(cached)
          IN  /\ NoteCache(r, ok)
              /\ IF cached # NoText /\ parsed.ok
                 THEN Answer(r, OkResponse(IF req[r].sku \in Known
                                           THEN ledger[req[r].sku] ELSE parsed.item))
                 ELSE /\ pc' = [pc EXCEPT ![r] = "gt_db"]
                      /\ UNCHANGED resp
    /\ UNCHANGED <<ledger, ledger0, clock, metrics, lock, cache, req, item, tx, wrote, returned, floor>>

\* handlers.rs get_item: cache lookup
GtCache(r) ==
    /\ pc[r] = "gt_cache"
    /\ \E ok \in BOOLEAN :
          LET cached == CacheGet(req[r].sku, ok)
              parsed == from_str(cached)
          IN  /\ NoteCache(r, ok)
              /\ IF cached # NoText /\ parsed.ok
                 THEN Answer(r, OkResponse(parsed.item))
                 ELSE /\ pc' = [pc EXCEPT ![r] = "gt_db"]
                      /\ UNCHANGED resp
    /\ UNCHANGED <<ledger, ledger0, clock, metrics, lock, cache, req, item, tx, wrote, returned, floor>>

\* a SELECT that sees the row as an open transaction has written it
get_by_sku_dirty(s) ==
    IF s \notin Known THEN NoItem
    ELSE IF lock[s] # NoLock /\ tx[lock[s]] # NoItem THEN tx[lock[s]]
    ELSE ledger[s]

\* db.rs Database::get_by_sku: plain SELECT, sees committed rows only
get_by_sku(s) == IF s \in Known THEN ledger[s] ELSE NoItem

\* handlers.rs get_item: cache miss, read the table
GtDb(r) ==
    /\ pc[r] = "gt_db"
    /\ PoolHasRoom
    /\ IF req[r].sku \in Known
       THEN /\ item' = [item EXCEPT ![r] = get_by_sku(req[r].sku)]
            /\ pc' = [pc EXCEPT ![r] = "gt_set"]
            /\ UNCHANGED resp
       ELSE /\ Answer(r, into_response(NotFound(ErrSkuNotFound(req[r].sku))))
            /\ UNCHANGED item
    /\ UNCHANGED <<ledger, ledger0, clock, metrics, lock, cache, req, tx, wrote, returned, floor, cacheErr>>

\* get_item with `?` on the SETEX: a Redis error becomes AppError::Redis
GtSetPropagates(r) ==
    /\ pc[r] = "gt_set"
    /\ \E ok \in BOOLEAN :
          /\ CacheSetex(req[r].sku, CacheTtl, to_string(item[r]), ok)
          /\ NoteCache(r, ok)
          /\ Answer(r, IF ok THEN OkResponse(item[r])
                           ELSE into_response([kind |-> "Redis", msg |-> NoMessage]))
    /\ UNCHANGED <<ledger, ledger0, clock, metrics, lock, req, item, tx, wrote, returned, floor>>

\* handlers.rs get_item: store in the cache and answer
GtSet(r) ==
    /\ pc[r] = "gt_set"
    /\ \E ok \in BOOLEAN :
          /\ CacheSetex(req[r].sku, CacheTtl, to_string(item[r]), ok)
          /\ NoteCache(r, ok)
    /\ Answer(r, OkResponse(item[r]))
    /\ UNCHANGED <<ledger, ledger0, clock, metrics, lock, req, item, tx, wrote, returned, floor>>

\* ---------------------------------------------------------- reserve_stock
\* handlers.rs reserve_stock, Err arm: every error becomes BadRequest
ReserveError(e) == into_response(BadRequest(e))

\* the SELECT without FOR UPDATE: the row is read but not locked
RsSelectNoLock(r) ==
    /\ pc[r] = "rs_select"
    /\ LET s == req[r].sku
       IN  IF s \in Known
           THEN /\ item' = [item EXCEPT ![r] = ledger[s]]
                /\ pc' = [pc EXCEPT ![r] = "rs_check"]
                /\ UNCHANGED <<resp, lock>>
           ELSE /\ Answer(r, into_response(BadRequest(ErrSkuNotFound(s))))
                /\ UNCHANGED <<lock, item>>
    /\ UNCHANGED <<ledger, ledger0, clock, cache, req, tx, wrote, returned, floor, cacheErr>>
    /\ ErrArm(r)

\* db.rs reserve_stock: pool.begin() waits for a pooled connection
RsBegin(r) ==
    /\ pc[r] = "rs_begin"
    /\ PoolHasRoom
    /\ pc' = [pc EXCEPT ![r] = "rs_select"]
    /\ UNCHANGED <<ledger, ledger0, clock, metrics, lock, cache, req, item, tx, resp, wrote, returned,
                   floor, cacheErr>>

\* the SELECT taking a lock on the whole table instead of the row
RsSelectLocksTable(r) ==
    /\ pc[r] = "rs_select"
    /\ LET s == req[r].sku
       IN  IF s \in Known
           THEN /\ \A o \in Known : lock[o] = NoLock
                /\ lock' = [lock EXCEPT ![s] = r]
                /\ item' = [item EXCEPT ![r] = ledger[s]]
                /\ pc' = [pc EXCEPT ![r] = "rs_check"]
                /\ UNCHANGED resp
           ELSE /\ Answer(r, into_response(BadRequest(ErrSkuNotFound(s))))
                /\ UNCHANGED <<lock, item>>
    /\ UNCHANGED <<ledger, ledger0, clock, cache, req, tx, wrote, returned, floor, cacheErr>>
    /\ ErrArm(r)

\* db.rs reserve_stock: SELECT ... FOR UPDATE.
\* The statement waits while another transaction holds the row lock.
RsSelect(r) ==
    /\ pc[r] = "rs_select"
    /\ LET s == req[r].sku
       IN  IF s \in Known
           THEN /\ lock[s] = NoLock
                /\ lock' = [lock EXCEPT ![s] = r]
                /\ item' = [item EXCEPT ![r] = ledger[s]]
                /\ pc' = [pc EXCEPT ![r] = "rs_check"]
                /\ UNCHANGED resp
           ELSE /\ Answer(r, ReserveError(ErrSkuNotFound(s)))
                /\ UNCHANGED <<lock, item>>
    /\ UNCHANGED <<ledger, ledger0, clock, cache, req, tx, wrote, returned, floor, cacheErr>>
    /\ ErrArm(r)

\* the UPDATE taking the units out of quantity instead
ReserveUpdateTakesQuantity(row, q) == [row EXCEPT !.quantity = @ - q, !.ver = @ + 1]

\* the row as UPDATE ... SET reserved = reserved + $1 writes it
ReserveUpdate(row, q) == [row EXCEPT !.reserved = @ + q, !.ver = @ + 1]

\* reserve_stock taking the row from the cache entry when there is one
RsCheckFromCache(r) ==
    /\ pc[r] = "rs_check"
    /\ LET s == req[r].sku
           q == req[r].amount
           parsed == from_str(cache[s].text)
           seen == IF parsed.ok THEN parsed.item ELSE item[r]
           new == ReserveUpdate(ledger[s], q)
       IN  IF available(seen) < q
           THEN /\ Answer(r, ReserveError(ErrInsufficient(available(seen), q)))
                /\ lock' = [lock EXCEPT ![s] = NoLock]
                /\ UNCHANGED tx
           ELSE IF ~CheckConstraints(new)
           THEN /\ Answer(r, ReserveError(ErrCheckViolation))
                /\ lock' = [lock EXCEPT ![s] = NoLock]
                /\ UNCHANGED tx
           ELSE /\ tx' = [tx EXCEPT ![r] = new]
                /\ pc' = [pc EXCEPT ![r] = "rs_commit"]
                /\ UNCHANGED <<lock, resp>>
    /\ UNCHANGED <<ledger, ledger0, clock, cache, req, item, wrote, returned, floor, cacheErr>>
    /\ ErrArm(r)

\* reserve_stock whose early returns leave the transaction open
RsCheckLeaksLock(r) ==
    /\ pc[r] = "rs_check"
    /\ LET s == req[r].sku
           q == req[r].amount
           new == ReserveUpdate(ledger[s], q)
       IN  IF available(item[r]) < q
           THEN /\ Answer(r, ReserveError(ErrInsufficient(available(item[r]), q)))
                /\ UNCHANGED <<lock, tx>>
           ELSE IF ~CheckConstraints(new)
           THEN /\ Answer(r, ReserveError(ErrCheckViolation))
                /\ UNCHANGED <<lock, tx>>
           ELSE /\ tx' = [tx EXCEPT ![r] = new]
                /\ pc' = [pc EXCEPT ![r] = "rs_commit"]
                /\ UNCHANGED <<lock, resp>>
    /\ UNCHANGED <<ledger, ledger0, clock, cache, req, item, wrote, returned, floor, cacheErr>>
    /\ ErrArm(r)

\* db.rs reserve_stock: availability check, then the UPDATE inside the
\* transaction.  An early return drops the transaction, which rolls back.
RsCheck(r) ==
    /\ pc[r] = "rs_check"
    /\ LET s == req[r].sku
           q == req[r].amount
           new == ReserveUpdate(ledger[s], q)
       IN  IF available(item[r]) < q
           THEN /\ Answer(r, ReserveError(ErrInsufficient(available(item[r]), q)))
                /\ lock' = [lock EXCEPT ![s] = NoLock]
                /\ UNCHANGED tx
           ELSE IF ~CheckConstraints(new)
           THEN /\ Answer(r, ReserveError(ErrCheckViolation))
                /\ lock' = [lock EXCEPT ![s] = NoLock]
                /\ UNCHANGED tx
           ELSE /\ tx' = [tx EXCEPT ![r] = new]
                /\ pc' = [pc EXCEPT ![r] = "rs_commit"]
                /\ UNCHANGED <<lock, resp>>
    /\ UNCHANGED <<ledger, ledger0, clock, cache, req, item, wrote, returned, floor, cacheErr>>
    /\ ErrArm(r)

\* db.rs reserve_stock: tx.commit()
RsCommit(r) ==
    /\ pc[r] = "rs_commit"
    /\ LET s == req[r].sku
       IN  /\ ledger' = [ledger EXCEPT ![s] = tx[r]]
           /\ lock' = [lock EXCEPT ![s] = NoLock]
           /\ wrote' = [wrote EXCEPT ![r] = tx[r].ver]
    /\ tx' = [tx EXCEPT ![r] = NoItem]
    /\ pc' = [pc EXCEPT ![r] = "rs_del"]
    /\ UNCHANGED <<ledger0, clock, metrics, cache, req, item, resp, returned, floor, cacheErr>>

\* reserve_stock repeating the DEL until Redis accepts it
RsDelRetries(r) ==
    /\ pc[r] = "rs_del"
    /\ \E ok \in BOOLEAN :
          /\ CacheDel(req[r].sku, ok) /\ NoteCache(r, ok)
          /\ IF ok
             THEN /\ Answer(r, OkReservation(req[r].sku, req[r].amount))
                  /\ NoteReturned(req[r].sku, wrote[r])
             ELSE UNCHANGED <<pc, resp, returned>>
    /\ UNCHANGED <<ledger, ledger0, clock, lock, req, item, tx, wrote, floor>>
    /\ OkArm(r)

\* handlers.rs reserve_stock, Ok arm: DEL the cache key, answer 200
RsDel(r) ==
    /\ pc[r] = "rs_del"
    /\ \E ok \in BOOLEAN : CacheDel(req[r].sku, ok) /\ NoteCache(r, ok)
    /\ Answer(r, OkReservation(req[r].sku, req[r].amount))
    /\ NoteReturned(req[r].sku, wrote[r])
    /\ UNCHANGED <<ledger, ledger0, clock, lock, req, item, tx, wrote, floor>>
    /\ OkArm(r)

\* ---------------------------------------------------------- release_stock
\* the UPDATE giving back everything that is reserved
ReleaseUpdateClears(row, q) == [row EXCEPT !.reserved = 0, !.ver = @ + 1]

\* the row as UPDATE ... SET reserved = GREATEST(reserved - $1, 0) writes it
ReleaseUpdate(row, q) ==
    [row EXCEPT !.reserved = Greatest(@ - q, 0), !.ver = @ + 1]

\* WHERE sku = $2, the reserved >= $1 test left to GREATEST
ReleaseMatchesSkuOnly(s, q) == s \in Known

\* WHERE sku = $2 AND reserved >= $1
ReleaseMatches(s, q) == s \in Known /\ ledger[s].reserved >= q

\* release_stock looking the sku up first and reporting its absence as such
release_stock_lookup(s, q) ==
    IF s \notin Known
    THEN [ok |-> FALSE, err |-> ErrSkuNotFound(s), row |-> NoItem]
    ELSE IF ledger[s].reserved < q
    THEN [ok |-> FALSE, err |-> ErrReleaseFailed, row |-> NoItem]
    ELSE IF ~CheckConstraints(ReleaseUpdate(ledger[s], q))
    THEN [ok |-> FALSE, err |-> ErrCheckViolation, row |-> NoItem]
    ELSE [ok |-> TRUE, err |-> NoMessage, row |-> ReleaseUpdate(ledger[s], q)]

\* db.rs release_stock: the UPDATE statement and the rows_affected() test
release_stock(s, q) ==
    IF ~ReleaseMatches(s, q)
    THEN [ok |-> FALSE, err |-> ErrReleaseFailed, row |-> NoItem]
    ELSE IF ~CheckConstraints(ReleaseUpdate(ledger[s], q))
    THEN [ok |-> FALSE, err |-> ErrCheckViolation, row |-> NoItem]
    ELSE [ok |-> TRUE, err |-> NoMessage, row |-> ReleaseUpdate(ledger[s], q)]

\* release_stock with an UPDATE that has lost its sku = $2 test
RlUpdateEveryRow(r) ==
    /\ pc[r] = "rl_update"
    /\ LET s == req[r].sku
           q == req[r].amount
           res == release_stock(s, q)
       IN  /\ PoolHasRoom
           /\ s \in Known => lock[s] = NoLock
           /\ IF res.ok
              THEN /\ ledger' = [k \in Known |->
                                   IF ledger[k].reserved >= q
                                      /\ CheckConstraints(ReleaseUpdate(ledger[k], q))
                                   THEN ReleaseUpdate(ledger[k], q) ELSE ledger[k]]
                   /\ wrote' = [wrote EXCEPT ![r] = res.row.ver]
                   /\ pc' = [pc EXCEPT ![r] = "rl_del"]
                   /\ UNCHANGED resp
              ELSE /\ Answer(r, into_response(FromAnyhow(res.err)))
                   /\ UNCHANGED <<ledger, wrote>>
    /\ UNCHANGED <<ledger0, clock, metrics, lock, cache, req, item, tx, returned, floor, cacheErr>>

\* release_stock with an UPDATE that does not wait for the row lock
RlUpdateSkipsLock(r) ==
    /\ pc[r] = "rl_update"
    /\ LET s == req[r].sku
           res == release_stock(s, req[r].amount)
       IN  /\ PoolHasRoom
           /\ IF res.ok
              THEN /\ ledger' = [ledger EXCEPT ![s] = res.row]
                   /\ wrote' = [wrote EXCEPT ![r] = res.row.ver]
                   /\ pc' = [pc EXCEPT ![r] = "rl_del"]
                   /\ UNCHANGED resp
              ELSE /\ Answer(r, into_response(FromAnyhow(res.err)))
                   /\ UNCHANGED <<ledger, wrote>>
    /\ UNCHANGED <<ledger0, clock, metrics, lock, cache, req, item, tx, returned, floor, cacheErr>>

\* handlers.rs release_stock: state.db.release_stock(&request).await?
\* The UPDATE waits while a transaction holds the row lock.
RlUpdate(r) ==
    /\ pc[r] = "rl_update"
    /\ LET s == req[r].sku
           res == release_stock(s, req[r].amount)
       IN  /\ PoolHasRoom
           /\ s \in Known => lock[s] = NoLock
           /\ IF res.ok
              THEN /\ ledger' = [ledger EXCEPT ![s] = res.row]
                   /\ wrote' = [wrote EXCEPT ![r] = res.row.ver]
                   /\ pc' = [pc EXCEPT ![r] = "rl_del"]
                   /\ UNCHANGED resp
              ELSE /\ Answer(r, into_response(FromAnyhow(res.err)))
                   /\ UNCHANGED <<ledger, wrote>>
    /\ UNCHANGED <<ledger0, clock, metrics, lock, cache, req, item, tx, returned, floor, cacheErr>>

\* handlers.rs release_stock: DEL the cache key, answer 200
RlDel(r) ==
    /\ pc[r] = "rl_del"
    /\ \E ok \in BOOLEAN : CacheDel(req[r].sku, ok) /\ NoteCache(r, ok)
    /\ Answer(r, OkReleased(req[r].sku, req[r].amount))
    /\ NoteReturned(req[r].sku, wrote[r])
    /\ UNCHANGED <<ledger, ledger0, clock, metrics, lock, req, item, tx, wrote, floor>>

\* ----------------------------------------------------------- adjust_stock
\* the UPDATE also pulling reserved down to the new quantity
AdjustUpdateClampsReserved(row, d) ==
    [row EXCEPT !.quantity = Greatest(@ + d, 0),
                !.reserved = IF @ > Greatest(row.quantity + d, 0)
                             THEN Greatest(row.quantity + d, 0) ELSE @,
                !.ver = @ + 1]

\* the UPDATE without GREATEST: quantity + $1 as it comes
AdjustUpdateNoClamp(row, d) == [row EXCEPT !.quantity = @ + d, !.ver = @ + 1]

\* the row as UPDATE ... SET quantity = GREATEST(quantity + $1, 0) writes it
AdjustUpdate(row, d) ==
    [row EXCEPT !.quantity = Greatest(@ + d, 0), !.ver = @ + 1]

\* db.rs adjust_stock: the UPDATE ... RETURNING statement and ok_or_else
adjust_stock(s, d) ==
    IF s \notin Known
    THEN [ok |-> FALSE, err |-> ErrSkuNotFound(s), row |-> NoItem]
    ELSE IF ~CheckConstraints(AdjustUpdate(ledger[s], d))
    THEN [ok |-> FALSE, err |-> ErrCheckViolation, row |-> NoItem]
    ELSE [ok |-> TRUE, err |-> NoMessage, row |-> AdjustUpdate(ledger[s], d)]

\* adjust_stock inserting a row when the sku has none
AdUpdateUpserts(r) ==
    /\ pc[r] = "ad_update"
    /\ LET s == req[r].sku
           res == adjust_stock(s, req[r].amount)
           new == [sku |-> s, quantity |-> Greatest(req[r].amount, 0), reserved |-> 0,
                   ver |-> 1]
       IN  /\ PoolHasRoom
           /\ s \in Known => lock[s] = NoLock
           /\ IF s \notin Known
              THEN /\ ledger' = [k \in Known \cup {s} |-> IF k = s THEN new ELSE ledger[k]]
                   /\ item' = [item EXCEPT ![r] = new]
                   /\ wrote' = [wrote EXCEPT ![r] = 1]
                   /\ pc' = [pc EXCEPT ![r] = "ad_del"]
                   /\ UNCHANGED resp
              ELSE IF res.ok
              THEN /\ ledger' = [ledger EXCEPT ![s] = res.row]
                   /\ item' = [item EXCEPT ![r] = res.row]
                   /\ wrote' = [wrote EXCEPT ![r] = res.row.ver]
                   /\ pc' = [pc EXCEPT ![r] = "ad_del"]
                   /\ UNCHANGED resp
              ELSE /\ Answer(r, into_response(FromAnyhow(res.err)))
                   /\ UNCHANGED <<ledger, item, wrote>>
    /\ UNCHANGED <<ledger0, clock, metrics, lock, cache, req, tx, returned, floor, cacheErr>>

\* handlers.rs adjust_stock: state.db.adjust_stock(&request).await?
\* The UPDATE waits while a transaction holds the row lock.
AdUpdate(r) ==
    /\ pc[r] = "ad_update"
    /\ LET s == req[r].sku
           res == adjust_stock(s, req[r].amount)
       IN  /\ PoolHasRoom
           /\ s \in Known => lock[s] = NoLock
           /\ IF res.ok
              THEN /\ ledger' = [ledger EXCEPT ![s] = res.row]
                   /\ item' = [item EXCEPT ![r] = res.row]
                   /\ wrote' = [wrote EXCEPT ![r] = res.row.ver]
                   /\ pc' = [pc EXCEPT ![r] = "ad_del"]
                   /\ UNCHANGED resp
              ELSE /\ Answer(r, into_response(FromAnyhow(res.err)))
                   /\ UNCHANGED <<ledger, item, wrote>>
    /\ UNCHANGED <<ledger0, clock, metrics, lock, cache, req, tx, returned, floor, cacheErr>>

\* handlers.rs adjust_stock: DEL the cache key, answer 200 with the row
AdDel(r) ==
    /\ pc[r] = "ad_del"
    /\ \E ok \in BOOLEAN : CacheDel(req[r].sku, ok) /\ NoteCache(r, ok)
    /\ Answer(r, OkResponse(item[r]))
    /\ NoteReturned(req[r].sku, wrote[r])
    /\ UNCHANGED <<ledger, ledger0, clock, metrics, lock, req, item, tx, wrote, floor>>

\* ------------------------------------------------------------------- Next
Next ==
    \/ \E r \in Reqs : Start(r)
    \/ \E r \in Reqs : Finish(r)
    \/ \E s \in Skus : CacheExpire(s)
    \/ \E r \in Reqs : GtCache(r)
    \/ \E r \in Reqs : GtDb(r)
    \/ \E r \in Reqs : GtSet(r)
    \/ \E r \in Reqs : RsBegin(r)
    \/ \E r \in Reqs : RsSelect(r)
    \/ \E r \in Reqs : RsCheck(r)
    \/ \E r \in Reqs : RsCommit(r)
    \/ \E r \in Reqs : RsDel(r)
    \/ \E r \in Reqs : RlUpdate(r)
    \/ \E r \in Reqs : RlDel(r)
    \/ \E r \in Reqs : AdUpdate(r)
    \/ \E r \in Reqs : AdDel(r)

Spec == Init /\ [][Next]_vars

\* ------------------------------------------- concurrent reserves of 1 unit
\* NumReserve reserve_stock requests for one unit of "X" are in flight at
\* once and nothing else touches the row.
NumReserve == 3
Reservers  == 1..NumReserve

InitReserve ==
    /\ ledger \in {l \in [Stocked -> Rows] :
                      /\ \A s \in Stocked : l[s].sku = s
                      /\ available(l["X"]) < NumReserve}
    /\ ledger0 = ledger
    /\ lock = [s \in Known |-> NoLock]
    /\ cache = [s \in Skus |-> NoEntry]
    /\ pc = [r \in Reservers |-> "rs_select"]
    /\ req = [r \in Reservers |-> [op |-> "reserve", sku |-> "X", amount |-> 1]]
    /\ item = [r \in Reservers |-> NoItem]
    /\ tx = [r \in Reservers |-> NoItem]
    /\ resp = [r \in Reservers |-> NoResp]
    /\ wrote = [r \in Reservers |-> 0]
    /\ returned = [s \in Skus |-> 0]
    /\ floor = [r \in Reservers |-> 0]
    /\ cacheErr = [r \in Reservers |-> FALSE]
    /\ clock = Epoch
    /\ metrics = [r \in Reservers |-> NoMetrics]

NextReserve ==
    \/ \E r \in Reservers : RsSelect(r)
    \/ \E r \in Reservers : RsCheck(r)
    \/ \E r \in Reservers : RsCommit(r)
    \/ \E r \in Reservers : RsDel(r)

SpecReserve == InitReserve /\ [][NextReserve]_vars

\* ------------------------------------------------- abandoned reserve calls
\* The caller goes away while reserve_stock holds the row lock: the handler's
\* future is dropped at its await point.  The Transaction value is dropped
\* with it, which queues a ROLLBACK on the connection, unless the COMMIT had
\* already been sent and only its reply was being awaited.
Abandon(r) ==
    /\ pc[r] \in {"rs_check", "rs_commit"}
    /\ \E p \in {"rs_dropped", "rs_committing"} :
          /\ p = "rs_committing" => pc[r] = "rs_commit"
          /\ pc' = [pc EXCEPT ![r] = p]
    /\ UNCHANGED <<ledger, ledger0, clock, metrics, lock, cache, req, item, tx, resp, wrote, returned,
                   floor, cacheErr>>

\* the transaction of a dropped call ending without giving the row back
EndTxKeepsLock(r) ==
    /\ pc[r] \in {"rs_dropped", "rs_committing"}
    /\ LET s == req[r].sku
       IN  IF pc[r] = "rs_committing"
           THEN /\ ledger' = [ledger EXCEPT ![s] = tx[r]]
                /\ wrote' = [wrote EXCEPT ![r] = tx[r].ver]
           ELSE UNCHANGED <<ledger, wrote>>
    /\ tx' = [tx EXCEPT ![r] = NoItem]
    /\ pc' = [pc EXCEPT ![r] = "gone"]
    /\ UNCHANGED <<ledger0, clock, metrics, lock, cache, req, item, resp, returned, floor, cacheErr>>

\* The transaction of a dropped call ends: the connection goes back to the
\* pool and runs the queued ROLLBACK, or PostgreSQL completes the COMMIT it
\* had received.  Either way the row lock is given back.
EndTx(r) ==
    /\ pc[r] \in {"rs_dropped", "rs_committing"}
    /\ LET s == req[r].sku
       IN  /\ IF pc[r] = "rs_committing"
              THEN /\ ledger' = [ledger EXCEPT ![s] = tx[r]]
                   /\ wrote' = [wrote EXCEPT ![r] = tx[r].ver]
              ELSE UNCHANGED <<ledger, wrote>>
           /\ lock' = [lock EXCEPT ![s] = NoLock]
    /\ tx' = [tx EXCEPT ![r] = NoItem]
    /\ pc' = [pc EXCEPT ![r] = "gone"]
    /\ UNCHANGED <<ledger0, clock, metrics, cache, req, item, resp, returned, floor, cacheErr>>

NextAbandon ==
    \/ \E r \in Reservers : RsSelect(r)
    \/ \E r \in Reservers : RsCheck(r)
    \/ \E r \in Reservers : RsCommit(r)
    \/ \E r \in Reservers : RsDel(r)
    \/ \E r \in Reservers : Abandon(r)
    \/ \E r \in Reservers : EndTx(r)

\* the pool's return task and the database server run whatever the callers do
SpecAbandon ==
    InitReserve /\ [][NextAbandon]_vars /\ \A r \in Reservers : WF_vars(EndTx(r))

\* The tokio runtime polls every task that can make progress and PostgreSQL
\* grants a free row lock to a waiting transaction, so every step of a call
\* that stays possible is taken; callers may still go away at any time.
SpecLive ==
    /\ InitReserve
    /\ [][NextAbandon]_vars
    /\ \A r \in Reservers :
          /\ WF_vars(RsSelect(r))
          /\ WF_vars(RsCheck(r))
          /\ WF_vars(RsCommit(r))
          /\ WF_vars(RsDel(r))
          /\ WF_vars(EndTx(r))

\* ------------------------------------------------------ an exhausted pool
\* max_connections reserve calls for one unit of "X", which has none to give,
\* are in flight: all but the last have been given a connection by
\* pool.begin().  One more request, for sku "Y", arrives.
Waiters   == 1..max_connections
Other     == max_connections + 1
PoolTasks == Waiters \cup {Other}

\* sqlx::Error::PoolTimedOut after acquire_timeout
ErrPoolTimedOut == [text |-> "pool timed out", sku |-> "", available |-> 0, requested |-> 0]

InitPool ==
    /\ ledger = [s \in {"X", "Y"} |->
                    IF s = "X"
                    THEN [sku |-> s, quantity |-> 1, reserved |-> 1, ver |-> 0]
                    ELSE [sku |-> s, quantity |-> 2, reserved |-> 1, ver |-> 0]]
    /\ ledger0 = ledger
    /\ lock = [s \in Known |-> NoLock]
    /\ cache \in {[s \in Skus |-> NoEntry],
                   [s \in Skus |-> IF s = "Y"
                                   THEN [text |-> to_string(ledger[s]), ttl |-> CacheTtl]
                                   ELSE NoEntry]}
    /\ \E op \in Ops :
          /\ req = [r \in PoolTasks |->
                      IF r \in Waiters
                      THEN [op |-> "reserve", sku |-> "X", amount |-> 1]
                      ELSE [op |-> op, sku |-> "Y", amount |-> IF op = "get" THEN 0 ELSE 1]]
          /\ pc = [r \in PoolTasks |->
                      IF r \in Waiters
                      THEN IF r < max_connections THEN "rs_select" ELSE "rs_begin"
                      ELSE CASE op = "get" -> "gt_cache"
                             [] op = "reserve" -> "rs_begin"
                             [] op = "release" -> "rl_update"
                             [] OTHER -> "ad_update"]
    /\ item = [r \in PoolTasks |-> NoItem]
    /\ tx = [r \in PoolTasks |-> NoItem]
    /\ resp = [r \in PoolTasks |-> NoResp]
    /\ wrote = [r \in PoolTasks |-> 0]
    /\ returned = [s \in Skus |-> 0]
    /\ floor = [r \in PoolTasks |-> 0]
    /\ cacheErr = [r \in PoolTasks |-> FALSE]
    /\ clock = Epoch
    /\ metrics = [r \in PoolTasks |-> NoMetrics]

\* positions at which the next step starts with pool.acquire()
Acquiring == {"rs_begin", "rl_update", "ad_update", "gt_db"}

\* no connection came free within acquire_timeout: the call fails, as
\* BadRequest in reserve_stock and through `?` as Internal elsewhere
PoolTimeout(r) ==
    /\ pc[r] \in Acquiring
    /\ ~PoolHasRoom
    /\ Answer(r, IF req[r].op = "reserve" THEN ReserveError(ErrPoolTimedOut)
                 ELSE into_response(FromAnyhow(ErrPoolTimedOut)))
    /\ UNCHANGED <<ledger, ledger0, clock, lock, cache, req, item, tx, wrote, returned, floor,
                   cacheErr>>
    /\ ErrArm(r)

\* the step of task r that its handler's code takes next
TaskStep(r) ==
    \/ GtCache(r) \/ GtDb(r) \/ GtSet(r)
    \/ RsBegin(r) \/ RsSelect(r) \/ RsCheck(r) \/ RsCommit(r) \/ RsDel(r)
    \/ RlUpdate(r) \/ RlDel(r)
    \/ AdUpdate(r) \/ AdDel(r)

NextPool ==
    \/ \E r \in PoolTasks : GtCache(r)
    \/ \E r \in PoolTasks : GtDb(r)
    \/ \E r \in PoolTasks : GtSet(r)
    \/ \E r \in PoolTasks : RsBegin(r)
    \/ \E r \in PoolTasks : RsSelect(r)
    \/ \E r \in PoolTasks : RsCheck(r)
    \/ \E r \in PoolTasks : RsCommit(r)
    \/ \E r \in PoolTasks : RsDel(r)
    \/ \E r \in PoolTasks : RlUpdate(r)
    \/ \E r \in PoolTasks : RlDel(r)
    \/ \E r \in PoolTasks : AdUpdate(r)
    \/ \E r \in PoolTasks : AdDel(r)
    \/ \E r \in PoolTasks : PoolTimeout(r)

SpecPool == InitPool /\ [][NextPool]_vars

\* ------------------------------------------------- list and low-stock reads
\* The two read-only calls that go over the whole table.  The table holds any
\* subset of the skus of Catalog, each row with its low_stock_threshold; the
\* cache holds entries that differ from the rows.
MaxThr   == 2                   \* largest low_stock_threshold of a row
MaxPage  == 3                   \* largest page number a list request carries
MaxPer   == 3                   \* largest per_page a list request carries
PerPageCap == 100               \* upper end of per_page.clamp(1, 100)

Catalog == <<"A", "B", "C">>    \* the skus in ascending text order
CatalogSkus == {Catalog[i] : i \in 1..Len(Catalog)}

\* position of a sku in ORDER BY sku ASC
SkuRank(s) == CHOOSE i \in 1..Len(Catalog) : Catalog[i] = s

CatalogRows(s) ==
    {row \in [sku : {s}, quantity : 0..MaxQty, reserved : 0..MaxQty, ver : {0},
              low_stock_threshold : 0..MaxThr] : row.reserved <= row.quantity}

\* a cached copy of a row taken before the row's last changes
StaleEntry(row) ==
    [text |-> to_string([sku |-> row.sku, quantity |-> MaxQty - row.quantity,
                         reserved |-> 0, ver |-> 0]),
     ttl |-> CacheTtl]

InitCatalog ==
    /\ \E present \in SUBSET CatalogSkus :
          ledger \in {l \in [present -> UNION {CatalogRows(s) : s \in present}] :
                         \A s \in present : l[s].sku = s}
    /\ ledger0 = ledger
    /\ lock = [s \in DOMAIN ledger |-> NoLock]
    /\ cache \in {[s \in CatalogSkus |-> NoEntry],
                   [s \in CatalogSkus |->
                       IF s \in DOMAIN ledger THEN StaleEntry(ledger[s]) ELSE NoEntry]}
    /\ pc = [r \in {1} |-> "idle"]
    /\ req = [r \in {1} |-> NoReq]
    /\ item = [r \in {1} |-> NoItem]
    /\ tx = [r \in {1} |-> NoItem]
    /\ resp = [r \in {1} |-> NoResp]
    /\ wrote = [r \in {1} |-> 0]
    /\ returned = [s \in CatalogSkus |-> 0]
    /\ floor = [r \in {1} |-> 0]
    /\ cacheErr = [r \in {1} |-> FALSE]
    /\ clock = Epoch
    /\ metrics = [r \in {1} |-> NoMetrics]

\* the sequences that enumerate the set S once each
Enumerations(S) ==
    {f \in [1..Cardinality(S) -> S] : \A i, j \in 1..Cardinality(S) : f[i] = f[j] => i = j}

\* the WHERE clause with <= for <
LowStockWhereInclusive(row) == (row.quantity - row.reserved) <= row.low_stock_threshold

\* WHERE (quantity - reserved) < low_stock_threshold
LowStockWhere(row) == (row.quantity - row.reserved) < row.low_stock_threshold

\* SELECT sku, quantity - reserved as available, low_stock_threshold as threshold
LowStockAlert(row) ==
    [sku |-> row.sku, available |-> row.quantity - row.reserved,
     threshold |-> row.low_stock_threshold]

\* db.rs get_low_stock_items: the results the query can return.  ORDER BY
\* (quantity - reserved) ASC leaves rows of equal available in any order.
get_low_stock_items(t) ==
    LET hits == {s \in DOMAIN t : LowStockWhere(t[s])}
    IN  {[i \in 1..Cardinality(hits) |-> LowStockAlert(t[f[i]])] :
            f \in {g \in Enumerations(hits) :
                      \A i, j \in 1..Cardinality(hits) :
                          i < j => t[g[i]].quantity - t[g[i]].reserved
                                     <= t[g[j]].quantity - t[g[j]].reserved}}

\* Ok(Json(alerts)) of low_stock_alerts
OkList(rows, n) ==
    [status |-> 200, error |-> "", message |-> NoMessage, item |-> NoItem,
     items |-> rows, total |-> n]

\* handlers.rs low_stock_alerts
LowStockAlerts(r) ==
    /\ pc[r] = "idle"
    /\ req' = [req EXCEPT ![r] = [op |-> "alerts", sku |-> "", amount |-> 0]]
    /\ \E alerts \in get_low_stock_items(ledger) : Answer(r, OkList(alerts, Len(alerts)))
    /\ UNCHANGED <<ledger, ledger0, clock, metrics, lock, cache, item, tx, wrote, returned, floor, cacheErr>>

\* the rows of t in ORDER BY sku ASC
OrderBySku(t) ==
    [i \in 1..Cardinality(DOMAIN t) |->
        t[CHOOSE s \in DOMAIN t :
              Cardinality({o \in DOMAIN t : SkuRank(o) < SkuRank(s)}) = i - 1]]

\* list_items taking page as the number of pages to skip
list_items_skips_page(t, page, per_page) ==
    LET offset == page * per_page
        sorted == OrderBySku(t)
        last   == IF offset + per_page <= Len(sorted) THEN offset + per_page ELSE Len(sorted)
    IN  [items |-> SubSeq(sorted, offset + 1, last), total |-> Cardinality(DOMAIN t)]

\* i32::MAX
I32Max == 2147483647

\* i32 addition: the sum as two's complement arithmetic leaves it, and whether
\* the true sum was outside the type
add_i32(x, y) ==
    IF y > 0 /\ x > I32Max - y
    THEN [overflow |-> TRUE, value |-> (x - I32Max - 1) + (y - I32Max - 1)]
    ELSE IF y < 0 /\ x < (-I32Max - 1) - y
    THEN [overflow |-> TRUE, value |-> (x + I32Max + 1) + (y + I32Max + 1)]
    ELSE [overflow |-> FALSE, value |-> x + y]

\* i32 multiplication a * b for 0 <= a and 0 <= b < 2^15: the product as two's
\* complement arithmetic leaves it, from the two 16-bit halves of a, and
\* whether the true product was outside the type
mul_i32(a, b) ==
    LET hi  == ((a \div 65536) * b) % 65536
        top == IF hi >= 32768 THEN (hi - 65536) * 65536 ELSE hi * 65536
    IN  [overflow |-> b > 0 /\ a > I32Max \div b,
         value |-> add_i32(top, (a % 65536) * b).value]

\* db.rs list_items: let offset = (page - 1) * per_page
offset_i32(page, per_page) == mul_i32(page - 1, per_page)

\* db.rs list_items: ORDER BY sku ASC LIMIT per_page OFFSET (page - 1) * per_page,
\* and SELECT COUNT(*)
list_items(t, page, per_page) ==
    LET offset == offset_i32(page, per_page).value
        sorted == OrderBySku(t)
        last   == IF offset <= Len(sorted) - per_page THEN offset + per_page ELSE Len(sorted)
    IN  [items |-> IF offset >= Len(sorted) THEN <<>> ELSE SubSeq(sorted, offset + 1, last),
         total |-> Cardinality(DOMAIN t)]

\* i32::clamp
Clamp(x, lo, hi) == IF x < lo THEN lo ELSE IF x > hi THEN hi ELSE x

\* the response with page and per_page in each other's place
OkInventoryListSwapped(res, page, per_page) ==
    [status |-> 200, error |-> "", message |-> NoMessage, item |-> NoItem,
     items |-> res.items, total |-> res.total, page |-> per_page, per_page |-> page]

\* Ok(Json(InventoryListResponse {items, total, page, per_page}))
OkInventoryList(res, page, per_page) ==
    [status |-> 200, error |-> "", message |-> NoMessage, item |-> NoItem,
     items |-> res.items, total |-> res.total, page |-> page, per_page |-> per_page]

\* PostgreSQL refusing the query: OFFSET must not be negative
ErrNegativeOffset == [text |-> "Failed to fetch inventory items", sku |-> "",
                      available |-> 0, requested |-> 0]

\* handlers.rs list_inventory for query parameters drawn from pages and pers.
\* When the offset overflows, a build with overflow checks panics in
\* list_items and the task ends without a response; a build without them
\* goes on with the wrapped offset.
ListInventoryOver(r, pages, pers) ==
    /\ pc[r] = "idle"
    /\ \E p \in pages, n \in pers :
          LET page == Max(p, 1)
              per_page == Clamp(n, 1, PerPageCap)
              offset == offset_i32(page, per_page)
          IN  /\ req' = [req EXCEPT ![r] = [op |-> "list", sku |-> "", amount |-> 0,
                                            page |-> page, per_page |-> per_page,
                                            params |-> [page |-> p, per_page |-> n]]]
              /\ \/ /\ offset.overflow
                    /\ pc' = [pc EXCEPT ![r] = "panicked"]
                    /\ UNCHANGED resp
                 \/ /\ offset.value < 0
                    /\ Answer(r, into_response(FromAnyhow(ErrNegativeOffset)))
                 \/ /\ offset.value >= 0
                    /\ Answer(r, OkInventoryList(list_items(ledger, page, per_page),
                                                 page, per_page))
    /\ UNCHANGED <<ledger, ledger0, clock, metrics, lock, cache, item, tx, wrote, returned,
                   floor, cacheErr>>

\* handlers.rs list_inventory
ListInventory(r) == ListInventoryOver(r, 0..MaxPage, 0..MaxPer)

\* low_stock_alerts over every table and cache
NextCatalog ==
    \/ LowStockAlerts(1)
    \/ Finish(1)

SpecCatalog == InitCatalog /\ [][NextCatalog]_vars

\* list_inventory over every set of rows; the rows differ in quantity only
InitList ==
    /\ InitCatalog
    /\ \A s \in DOMAIN ledger :
          ledger[s].reserved = 0 /\ ledger[s].low_stock_threshold = 0
    /\ \A s \in CatalogSkus : cache[s] = NoEntry

NextList ==
    \/ ListInventory(1)
    \/ Finish(1)

SpecList == InitList /\ [][NextList]_vars

\* ------------------------------------------- reads next to open transactions
\* Two reserve calls for one unit of "A", either of which the caller may
\* abandon, run next to two get_item calls for "A" and a task that lists the
\* table and asks for the low-stock alerts.
Writers == {1, 2}
Readers == {3, 4}
Lister  == 5

InitDirty ==
    /\ ledger \in {l \in [{"A"} -> CatalogRows("A")] : available(l["A"]) >= 1}
    /\ ledger0 = ledger
    /\ lock = [s \in Known |-> NoLock]
    /\ cache = [s \in Skus |-> NoEntry]
    /\ pc = [r \in Writers \cup Readers \cup {Lister} |->
                IF r \in Writers THEN "rs_begin" ELSE IF r \in Readers THEN "gt_cache"
                ELSE "idle"]
    /\ req = [r \in Writers \cup Readers \cup {Lister} |->
                 IF r \in Writers THEN [op |-> "reserve", sku |-> "A", amount |-> 1]
                 ELSE IF r \in Readers THEN [op |-> "get", sku |-> "A", amount |-> 0]
                 ELSE NoReq]
    /\ item = [r \in DOMAIN pc |-> NoItem]
    /\ tx = [r \in DOMAIN pc |-> NoItem]
    /\ resp = [r \in DOMAIN pc |-> NoResp]
    /\ wrote = [r \in DOMAIN pc |-> 0]
    /\ returned = [s \in Skus |-> 0]
    /\ floor = [r \in DOMAIN pc |-> 0]
    /\ cacheErr = [r \in DOMAIN pc |-> FALSE]
    /\ clock = Epoch
    /\ metrics = [r \in DOMAIN pc |-> NoMetrics]

NextDirty ==
    \/ \E r \in Writers : RsBegin(r)
    \/ \E r \in Writers : RsSelect(r)
    \/ \E r \in Writers : RsCheck(r)
    \/ \E r \in Writers : RsCommit(r)
    \/ \E r \in Writers : RsDel(r)
    \/ \E r \in Writers : Abandon(r)
    \/ \E r \in Writers : EndTx(r)
    \/ \E r \in Readers : GtCache(r)
    \/ \E r \in Readers : GtDb(r)
    \/ \E r \in Readers : GtSet(r)
    \/ LowStockAlerts(Lister)
    \/ ListInventoryOver(Lister, {1}, {PerPageCap})
    \/ Finish(Lister)

SpecDirty == InitDirty /\ [][NextDirty]_vars

\* ------------------------------------------------------------ timestamps
\* The calls with the clock running.  Time is counted in steps of the clock,
\* ExpiryHours of which make the 24 hours of chrono::Duration::hours(24); two
\* reads of the clock with other work between them may differ.  NOW() in a
\* statement is the time at which its transaction started: for reserve_stock
\* the time of pool.begin(), for the single UPDATE of release_stock and
\* adjust_stock the time at which the statement reached the server, which is
\* before any wait for the row lock.  Utc::now() is the time of the call.
MaxClock == 2
ExpiryHours == 24

\* SET updated_at = NOW()
Stamp(row, t) == [row EXCEPT !.updated_at = t]

\* Ok(ReservationResponse {sku, quantity, created_at, expires_at: Some(..)})
OkReservationAt(s, q, created, expires) ==
    [status |-> 200, error |-> "", message |-> NoMessage,
     item |-> [sku |-> s, quantity |-> q, reserved |-> 0, ver |-> 0],
     created_at |-> created, expires_at |-> <<expires>>]

Mutators == {1, 2}
Reader   == 3

InitClock ==
    /\ ledger = [s \in {"A"} |->
                   [sku |-> s, quantity |-> MaxQty, reserved |-> 1, ver |-> 0,
                    low_stock_threshold |-> 1, created_at |-> 0, updated_at |-> 0]]
    /\ ledger0 = ledger
    /\ lock = [s \in Known |-> NoLock]
    /\ cache = [s \in Skus |-> NoEntry]
    /\ req \in {q \in [Mutators \cup {Reader} ->
                          [op : {"reserve", "release", "adjust", "get"}, sku : {"A"},
                           amount : 0..MaxReq]] :
                    /\ q[Reader].op = "get" /\ q[Reader].amount = 0
                    /\ \A r \in Mutators : q[r].op # "get" /\ q[r].amount > 0}
    /\ pc = [r \in Mutators \cup {Reader} |->
                CASE req[r].op = "reserve" -> "rs_begin"
                  [] req[r].op = "release" -> "rl_send"
                  [] req[r].op = "adjust" -> "ad_send"
                  [] OTHER -> "gt_cache"]
    /\ item = [r \in DOMAIN pc |-> NoItem]
    /\ tx = [r \in DOMAIN pc |-> NoItem]
    /\ resp = [r \in DOMAIN pc |-> NoResp]
    /\ wrote = [r \in DOMAIN pc |-> 0]
    /\ returned = [s \in Skus |-> 0]
    /\ floor = [r \in DOMAIN pc |-> 0]
    /\ cacheErr = [r \in DOMAIN pc |-> FALSE]
    /\ clock = [now |-> 0, began |-> [r \in DOMAIN pc |-> 0]]
    /\ metrics = [r \in DOMAIN pc |-> NoMetrics]

\* the clock advances by one step
Tick ==
    /\ clock.now % ExpiryHours < MaxClock
    /\ clock' = [clock EXCEPT !.now = @ + 1]
    /\ UNCHANGED <<ledger, ledger0, lock, cache, pc, req, item, tx, resp, wrote, returned,
                   floor, cacheErr, metrics>>

\* a day passing together with a sweep that gives back the units of every
\* confirmed reservation whose expires_at is then over
ElapseSweeps ==
    /\ clock.now < ExpiryHours
    /\ clock' = [clock EXCEPT !.now = @ + ExpiryHours]
    /\ ledger' = [s \in Known |->
                    LET over == {r \in DOMAIN pc :
                                   /\ pc[r] = "done" /\ req[r].op = "reserve"
                                   /\ req[r].sku = s /\ resp[r].status = 200
                                   /\ resp[r].expires_at[1] < clock.now + ExpiryHours}
                    IN  IF over = {} THEN ledger[s]
                        ELSE [ledger[s] EXCEPT !.reserved = Greatest(@ - 1, 0)]]
    /\ UNCHANGED <<ledger0, lock, cache, pc, req, item, tx, resp, wrote, returned,
                   floor, cacheErr, metrics>>

\* a day passes: the service does nothing of its own accord
Elapse ==
    /\ clock.now < ExpiryHours
    /\ clock' = [clock EXCEPT !.now = @ + ExpiryHours]
    /\ UNCHANGED <<ledger, ledger0, lock, cache, pc, req, item, tx, resp, wrote, returned,
                   floor, cacheErr, metrics>>

\* db.rs reserve_stock: pool.begin() sends BEGIN; the transaction starts now
TmBegin(r) ==
    /\ pc[r] = "rs_begin"
    /\ PoolHasRoom
    /\ pc' = [pc EXCEPT ![r] = "rs_select"]
    /\ clock' = [clock EXCEPT !.began[r] = clock.now]
    /\ UNCHANGED <<ledger, ledger0, lock, cache, req, item, tx, resp, wrote, returned,
                   floor, cacheErr, metrics>>

\* db.rs release_stock / adjust_stock: the UPDATE reaches the server; its
\* transaction starts now
TmSend(r) ==
    /\ pc[r] \in {"rl_send", "ad_send"}
    /\ PoolHasRoom
    /\ pc' = [pc EXCEPT ![r] = IF pc[r] = "rl_send" THEN "rl_update" ELSE "ad_update"]
    /\ clock' = [clock EXCEPT !.began[r] = clock.now]
    /\ UNCHANGED <<ledger, ledger0, lock, cache, req, item, tx, resp, wrote, returned,
                   floor, cacheErr, metrics>>

\* db.rs reserve_stock: availability check, then UPDATE ... SET reserved =
\* reserved + $1, updated_at = NOW() inside the transaction
TmCheck(r) ==
    /\ pc[r] = "rs_check"
    /\ LET s == req[r].sku
           q == req[r].amount
           new == Stamp(ReserveUpdate(ledger[s], q), clock.began[r])
       IN  IF available(item[r]) < q
           THEN /\ Answer(r, ReserveError(ErrInsufficient(available(item[r]), q)))
                /\ lock' = [lock EXCEPT ![s] = NoLock]
                /\ UNCHANGED tx
           ELSE IF ~CheckConstraints(new)
           THEN /\ Answer(r, ReserveError(ErrCheckViolation))
                /\ lock' = [lock EXCEPT ![s] = NoLock]
                /\ UNCHANGED tx
           ELSE /\ tx' = [tx EXCEPT ![r] = new]
                /\ pc' = [pc EXCEPT ![r] = "rs_commit"]
                /\ UNCHANGED <<lock, resp>>
    /\ ErrArm(r)
    /\ UNCHANGED <<ledger, ledger0, clock, cache, req, item, wrote, returned, floor, cacheErr>>

\* db.rs reserve_stock: Ok(ReservationResponse {..}) with its two calls of
\* Utc::now(), the second of which may come a step after the first; then
\* handlers.rs reserve_stock, Ok arm
TmConfirm(r) ==
    /\ pc[r] = "rs_del"
    /\ \E ok \in BOOLEAN : CacheDel(req[r].sku, ok) /\ NoteCache(r, ok)
    /\ \E d \in {0, 1} :
          /\ d = 1 => clock.now % ExpiryHours < MaxClock
          /\ clock' = [clock EXCEPT !.now = @ + d]
          /\ Answer(r, OkReservationAt(req[r].sku, req[r].amount, clock.now,
                                       clock.now + d + ExpiryHours))
    /\ NoteReturned(req[r].sku, wrote[r])
    /\ OkArm(r)
    /\ UNCHANGED <<ledger, ledger0, lock, req, item, tx, wrote, floor>>

\* db.rs release_stock: UPDATE ... SET reserved = GREATEST(reserved - $1, 0),
\* updated_at = NOW(), once the row is not locked
TmRelease(r) ==
    /\ pc[r] = "rl_update"
    /\ LET s == req[r].sku
           res == release_stock(s, req[r].amount)
       IN  /\ s \in Known => lock[s] = NoLock
           /\ IF res.ok
              THEN /\ ledger' = [ledger EXCEPT ![s] = Stamp(res.row, clock.began[r])]
                   /\ wrote' = [wrote EXCEPT ![r] = res.row.ver]
                   /\ pc' = [pc EXCEPT ![r] = "rl_del"]
                   /\ UNCHANGED resp
              ELSE /\ Answer(r, into_response(FromAnyhow(res.err)))
                   /\ UNCHANGED <<ledger, wrote>>
    /\ UNCHANGED <<ledger0, clock, metrics, lock, cache, req, item, tx, returned, floor,
                   cacheErr>>

\* db.rs adjust_stock: UPDATE ... SET quantity = GREATEST(quantity + $1, 0),
\* updated_at = NOW() ... RETURNING, once the row is not locked
TmAdjust(r) ==
    /\ pc[r] = "ad_update"
    /\ LET s == req[r].sku
           res == adjust_stock(s, req[r].amount)
       IN  /\ s \in Known => lock[s] = NoLock
           /\ IF res.ok
              THEN /\ ledger' = [ledger EXCEPT ![s] = Stamp(res.row, clock.began[r])]
                   /\ item' = [item EXCEPT ![r] = Stamp(res.row, clock.began[r])]
                   /\ wrote' = [wrote EXCEPT ![r] = res.row.ver]
                   /\ pc' = [pc EXCEPT ![r] = "ad_del"]
                   /\ UNCHANGED resp
              ELSE /\ Answer(r, into_response(FromAnyhow(res.err)))
                   /\ UNCHANGED <<ledger, item, wrote>>
    /\ UNCHANGED <<ledger0, clock, metrics, lock, cache, req, tx, returned, floor, cacheErr>>

NextClock ==
    \/ Tick
    \/ Elapse
    \/ \E r \in Mutators : TmBegin(r)
    \/ \E r \in Mutators : TmSend(r)
    \/ \E r \in Mutators : RsSelect(r)
    \/ \E r \in Mutators : TmCheck(r)
    \/ \E r \in Mutators : RsCommit(r)
    \/ \E r \in Mutators : TmConfirm(r)
    \/ \E r \in Mutators : TmRelease(r)
    \/ \E r \in Mutators : RlDel(r)
    \/ \E r \in Mutators : TmAdjust(r)
    \/ \E r \in Mutators : AdDel(r)
    \/ GtCache(Reader)
    \/ GtDb(Reader)
    \/ GtSet(Reader)
    \/ Finish(Reader)
    \/ LowStockAlerts(Reader)
    \/ ListInventoryOver(Reader, {1}, {PerPageCap})

SpecClock == InitClock /\ [][NextClock]_vars

\* ----------------------------------------------- list_inventory, any i32
\* Query parameters from both ends of i32 and from either side of each limit
\* the handler and list_items have.
PageParams == {-I32Max - 1, -1, I32Max \div PerPageCap + 1, I32Max \div PerPageCap + 2,
               I32Max} \cup (0..MaxPage)
PerPageParams == {-I32Max - 1, -1, 20, PerPageCap - 1, PerPageCap, PerPageCap + 1, I32Max}
                    \cup (0..MaxPer)

ListInventoryAny(r) == ListInventoryOver(r, PageParams, PerPageParams)

NextPaging ==
    \/ ListInventoryAny(1)
    \/ Finish(1)

SpecPaging == InitList /\ [][NextPaging]_vars

\* ------------------------------------------------ every call, two full rows
\* One caller issues any of the six calls, one after the other, against a
\* table of two rows that carry every column the calls could touch.
FullRow(s, q, res) ==
    [sku |-> s, quantity |-> q, reserved |-> res, ver |-> 0,
     low_stock_threshold |-> 1, id |-> <<"id", s>>, name |-> <<"name", s>>,
     warehouse |-> "JKT-1", created_at |-> 0]

InitTable ==
    /\ ledger \in {[s \in {"A", "B"} |-> IF s = "A" THEN FullRow(s, qa, ra)
                                                     ELSE FullRow(s, MaxQty, 1)] :
                      qa \in 0..MaxQty, ra \in 0..MaxQty}
    /\ \A s \in DOMAIN ledger : ledger[s].reserved <= ledger[s].quantity
    /\ ledger0 = ledger
    /\ lock = [s \in Known |-> NoLock]
    /\ cache = [s \in Skus |-> NoEntry]
    /\ pc = [r \in {1} |-> "idle"]
    /\ req = [r \in {1} |-> NoReq]
    /\ item = [r \in {1} |-> NoItem]
    /\ tx = [r \in {1} |-> NoItem]
    /\ resp = [r \in {1} |-> NoResp]
    /\ wrote = [r \in {1} |-> 0]
    /\ returned = [s \in Skus |-> 0]
    /\ floor = [r \in {1} |-> 0]
    /\ cacheErr = [r \in {1} |-> FALSE]
    /\ clock = Epoch
    /\ metrics = [r \in {1} |-> NoMetrics]

NextTable ==
    \/ Start(1)
    \/ Finish(1)
    \/ GtCache(1)
    \/ GtDb(1)
    \/ GtSet(1)
    \/ RsBegin(1)
    \/ RsSelect(1)
    \/ RsCheck(1)
    \/ RsCommit(1)
    \/ RsDel(1)
    \/ RlUpdate(1)
    \/ RlDel(1)
    \/ AdUpdate(1)
    \/ AdDel(1)
    \/ LowStockAlerts(1)
    \/ ListInventory(1)

SpecTable == InitTable /\ [][NextTable]_vars

\* ------------------------------------------- concurrent mutations of one sku
\* Every task has one reserve, release or adjust of "X" to make and they all
\* run at once; nothing else touches the row.
InitMix ==
    /\ ledger \in {l \in [Stocked -> Rows] : \A s \in Stocked : l[s].sku = s}
    /\ ledger0 = ledger
    /\ lock = [s \in Known |-> NoLock]
    /\ cache = [s \in Skus |-> NoEntry]
    /\ req \in [Reqs -> [op : {"reserve", "release", "adjust"}, sku : {"X"},
                         amount : Amounts]]
    /\ pc = [r \in Reqs |-> CASE req[r].op = "reserve" -> "rs_begin"
                              [] req[r].op = "release" -> "rl_update"
                              [] OTHER -> "ad_update"]
    /\ item = [r \in Reqs |-> NoItem]
    /\ tx = [r \in Reqs |-> NoItem]
    /\ resp = [r \in Reqs |-> NoResp]
    /\ wrote = [r \in Reqs |-> 0]
    /\ returned = [s \in Skus |-> 0]
    /\ floor = [r \in Reqs |-> 0]
    /\ cacheErr = [r \in Reqs |-> FALSE]
    /\ clock = Epoch
    /\ metrics = [r \in Reqs |-> NoMetrics]

NextMix ==
    \/ \E r \in Reqs : RsBegin(r)
    \/ \E r \in Reqs : RsSelect(r)
    \/ \E r \in Reqs : RsCheck(r)
    \/ \E r \in Reqs : RsCommit(r)
    \/ \E r \in Reqs : RsDel(r)
    \/ \E r \in Reqs : RlUpdate(r)
    \/ \E r \in Reqs : RlDel(r)
    \/ \E r \in Reqs : AdUpdate(r)
    \/ \E r \in Reqs : AdDel(r)

SpecMix == InitMix /\ [][NextMix]_vars

\* ------------------------------------------------------ Config::from_env
\* The environment gives each name no value, a value that is not valid
\* Unicode, or a text.  PORT texts are sequences of characters so that the
\* u16 parse is computed digit by digit; each URL is one opaque token.
DefaultPort == <<"8", "0", "0", "2">>       \* "8002".to_string()
U16Max == 65535                             \* u16::MAX

Unset      == [set |-> FALSE, unicode |-> FALSE, text |-> <<>>]
NotUnicode == [set |-> TRUE, unicode |-> FALSE, text |-> <<>>]
Text(t)    == [set |-> TRUE, unicode |-> TRUE, text |-> t]

PortTexts ==
    {<<>>, <<"0">>, <<"9", "0", "0", "0">>, <<"0", "0", "8", "0">>,
     <<"6", "5", "5", "3", "5">>, <<"6", "5", "5", "3", "6">>,
     <<"+", "8", "0">>, <<"-", "1">>, <<" ", "8", "0">>, <<"8", "0", "a">>, <<"+">>}

DbUrl    == <<"postgres://db">>
RedisUrl == <<"redis://cache">>

Environments ==
    [PORT : {Unset, NotUnicode} \cup {Text(t) : t \in PortTexts},
     DATABASE_URL : {Unset, NotUnicode, Text(DbUrl)},
     REDIS_URL : {Unset, NotUnicode, Text(RedisUrl)}]

\* std::env::var: Err(NotPresent), Err(NotUnicode) or Ok(text)
env_var(e, name) ==
    IF e[name].set /\ e[name].unicode
    THEN [ok |-> TRUE, val |-> e[name].text]
    ELSE [ok |-> FALSE, val |-> <<>>]

Digits == <<"0", "1", "2", "3", "4", "5", "6", "7", "8", "9">>
IsDigit(c) == \E i \in 1..10 : Digits[i] = c
DigitValue(c) == (CHOOSE i \in 1..10 : Digits[i] = c) - 1

\* value of a run of digits, U16Max + 1 standing for any overflow
RECURSIVE DigitsValue(_, _)
DigitsValue(t, acc) ==
    IF t = <<>> THEN acc
    ELSE LET next == acc * 10 + DigitValue(Head(t))
         IN  DigitsValue(Tail(t), IF next > U16Max THEN U16Max + 1 ELSE next)

\* str::parse::<u16>: an optional "+", then one or more digits, no overflow
parse_u16(t) ==
    LET body == IF t # <<>> /\ Head(t) = "+" THEN Tail(t) ELSE t
    IN  IF body = <<>> \/ \E i \in 1..Len(body) : ~IsDigit(body[i])
        THEN [ok |-> FALSE, val |-> 0]
        ELSE IF DigitsValue(body, 0) > U16Max
        THEN [ok |-> FALSE, val |-> 0]
        ELSE [ok |-> TRUE, val |-> DigitsValue(body, 0)]

\* config.rs Config::from_env
from_env(e) ==
    LET port_text == IF env_var(e, "PORT").ok THEN env_var(e, "PORT").val ELSE DefaultPort
        port      == parse_u16(port_text)
        db        == env_var(e, "DATABASE_URL")
        redis     == env_var(e, "REDIS_URL")
    IN  IF ~port.ok THEN [ok |-> FALSE, err |-> "Failed to parse PORT as a number"]
        ELSE IF ~db.ok
        THEN [ok |-> FALSE, err |-> "DATABASE_URL environment variable is required"]
        ELSE IF ~redis.ok
        THEN [ok |-> FALSE, err |-> "REDIS_URL environment variable is required"]
        ELSE [ok |-> TRUE, port |-> port.val, database_url |-> db.val,
              redis_url |-> redis.val]

InitConfig ==
    /\ ledger = [s \in {} |-> NoItem]
    /\ ledger0 = ledger
    /\ lock = [s \in {} |-> NoLock]
    /\ cache = [s \in {} |-> NoEntry]
    /\ pc = [r \in {1} |-> "idle"]
    /\ req \in {[r \in {1} |-> [op |-> "from_env", sku |-> "", amount |-> 0, env |-> e]] :
                    e \in Environments}
    /\ item = [r \in {1} |-> NoItem]
    /\ tx = [r \in {1} |-> NoItem]
    /\ resp = [r \in {1} |-> NoResp]
    /\ wrote = [r \in {1} |-> 0]
    /\ returned = [s \in {} |-> 0]
    /\ floor = [r \in {1} |-> 0]
    /\ cacheErr = [r \in {1} |-> FALSE]
    /\ clock = Epoch
    /\ metrics = [r \in {1} |-> NoMetrics]

\* the service starts: main calls Config::from_env()
FromEnv(r) ==
    /\ pc[r] = "idle"
    /\ req[r].op = "from_env"
    /\ pc' = [pc EXCEPT ![r] = "done"]
    /\ resp' = [resp EXCEPT ![r] = from_env(req[r].env)]
    /\ UNCHANGED <<ledger, ledger0, clock, metrics, lock, cache, req, item, tx, wrote, returned, floor,
                   cacheErr>>

NextConfig == FromEnv(1)

SpecConfig == InitConfig /\ [][NextConfig]_vars

\* ================================================================= claims
Tasks == DOMAIN pc

Done(r, op) == pc[r] = "done" /\ req[r].op = op

Insufficient(r) == resp[r].status # 200 /\ resp[r].message.text = "Insufficient stock"

\* C1: N concurrent reserves of one unit against available = A < N: when all
\* have been answered exactly A got 200, the other N - A were refused for
\* insufficient stock, and reserved has grown by A.
C1_NoOverselling ==
    (\A r \in Tasks : pc[r] = "done") =>
        LET A  == available(ledger0["X"])
            ok == {r \in Tasks : resp[r].status = 200}
            ko == {r \in Tasks : Insufficient(r)}
        IN  /\ Cardinality(ok) = A
            /\ Cardinality(ko) = Cardinality(Tasks) - A
            /\ ledger["X"].reserved = ledger0["X"].reserved + A
            /\ ledger["X"].quantity = ledger0["X"].quantity

C1_Witness ==
    /\ \A r \in Tasks : pc[r] = "done"
    /\ Cardinality(Tasks) = NumReserve
    /\ available(ledger0["X"]) = 2
    /\ \E r \in Tasks : resp[r].status = 200
    /\ \E r \in Tasks : Insufficient(r)

\* C2: every committed row has quantity >= 0 and 0 <= reserved <= quantity.
C2_LedgerInvariant ==
    \A s \in Known :
        /\ ledger[s].quantity >= 0
        /\ ledger[s].reserved >= 0
        /\ ledger[s].reserved <= ledger[s].quantity

\* an adjust that would have taken quantity below reserved was answered
C2_Witness ==
    \E r \in Tasks :
        /\ Done(r, "adjust")
        /\ req[r].sku \in Known
        /\ resp[r].message = ErrCheckViolation
        /\ ledger[req[r].sku].ver > 0

\* C3: a get_item that starts after a mutation of its sku was answered
\* returns the row with that mutation applied (a row at least that new).
C3_CacheCoherence ==
    \A r \in Tasks :
        (Done(r, "get") /\ resp[r].status = 200) => resp[r].item.ver >= floor[r]

\* task r takes its step at position p in this transition
Steps(r, p) == pc[r] = p /\ pc'[r] # p

\* C4: a reserve that asks for more than quantity - reserved of the locked
\* row is refused for insufficient stock, writes nothing, keeps no open
\* transaction and gives the row lock back.
C4_InsufficientRollsBack ==
    [][\A r \in Tasks :
         (Steps(r, "rs_check")
            /\ req[r].amount > ledger[req[r].sku].quantity - ledger[req[r].sku].reserved)
         => /\ pc'[r] = "done"
            /\ resp'[r].status # 200
            /\ resp'[r].message.text = "Insufficient stock"
            /\ ledger' = ledger
            /\ tx'[r] = NoItem
            /\ wrote'[r] = 0
            /\ lock'[req[r].sku] = NoLock]_vars

C4_Witness ==
    \E r \in Tasks :
        /\ Done(r, "reserve")
        /\ Insufficient(r)
        /\ ledger[req[r].sku].reserved > 0
        /\ ledger[req[r].sku].quantity > ledger[req[r].sku].reserved

\* C5: a release of more than the row's reserved is refused and changes no
\* row, and reserved is never negative.
C5_ReleaseFloor ==
    /\ [](\A s \in Known : ledger[s].reserved >= 0)
    /\ [][\A r \in Tasks :
            (Steps(r, "rl_update") /\ req[r].sku \in Known
               /\ req[r].amount > ledger[req[r].sku].reserved)
            => /\ pc'[r] = "done"
               /\ resp'[r].status # 200
               /\ ledger' = ledger]_vars

C5_Witness ==
    \E r \in Tasks :
        /\ Done(r, "release")
        /\ req[r].sku \in Known
        /\ resp[r].status # 200
        /\ req[r].amount > ledger[req[r].sku].reserved
        /\ ledger[req[r].sku].ver > 0

\* C6 as stated: an adjust whose delta is negative and takes quantity + delta
\* below reserved succeeds, stores max(0, quantity + delta), keeps reserved,
\* and leaves a committed row with reserved > quantity.
C6_AdjustUnconditional ==
    [][\A r \in Tasks :
         LET s == req[r].sku
             d == req[r].amount
         IN  (Steps(r, "ad_update") /\ s \in Known /\ d < 0
                /\ ledger[s].quantity + d < ledger[s].reserved)
             => /\ pc'[r] = "ad_del"
                /\ ledger'[s].quantity = Max(0, ledger[s].quantity + d)
                /\ ledger'[s].reserved = ledger[s].reserved
                /\ ledger'[s].reserved > ledger'[s].quantity]_vars

\* C6 amended: an adjust whose max(0, quantity + delta) is below reserved is
\* rejected by the valid_reserved CHECK constraint: it is answered 500
\* INTERNAL_ERROR, no row changes and no cache key is deleted.
C6_AdjustBelowReservedRejected ==
    [][\A r \in Tasks :
         LET s == req[r].sku
             d == req[r].amount
         IN  (Steps(r, "ad_update") /\ s \in Known
                /\ Max(0, ledger[s].quantity + d) < ledger[s].reserved)
             => /\ pc'[r] = "done"
                /\ resp'[r].status = 500
                /\ resp'[r].error = "INTERNAL_ERROR"
                /\ resp'[r].message = ErrCheckViolation
                /\ ledger' = ledger
                /\ cache' = cache]_vars

C6_Witness ==
    \E r \in Tasks :
        /\ Done(r, "adjust")
        /\ req[r].sku \in Known
        /\ req[r].amount < 0
        /\ resp[r].status = 500
        /\ ledger[req[r].sku].reserved > 0
        /\ ledger[req[r].sku].quantity + req[r].amount < ledger[req[r].sku].reserved

\* C7: the answer to a reserve refused for insufficient stock carries the
\* locked row's quantity - reserved and the requested quantity.
C7_RejectionReportsAvailable ==
    [][\A r \in Tasks :
         (Steps(r, "rs_check") /\ resp'[r].status # 200
            /\ resp'[r].message.text = "Insufficient stock")
         => /\ resp'[r].message.available =
                  ledger[req[r].sku].quantity - ledger[req[r].sku].reserved
            /\ resp'[r].message.requested = req[r].amount]_vars

C7_Witness ==
    \E r \in Tasks :
        /\ Done(r, "reserve")
        /\ Insufficient(r)
        /\ resp[r].message.available = 1
        /\ resp[r].message.requested = 2
        /\ ledger[req[r].sku].reserved = 1

\* C8: a reserve of an unknown sku is answered 404 NOT_FOUND and a reserve
\* beyond the available stock 409 INSUFFICIENT_STOCK.
C8_ReserveErrorKinds ==
    \A r \in Tasks :
        Done(r, "reserve") =>
            /\ req[r].sku \notin Known =>
                  resp[r].status = 404 /\ resp[r].error = "NOT_FOUND"
            /\ resp[r].message.text = "Insufficient stock" =>
                  resp[r].status = 409 /\ resp[r].error = "INSUFFICIENT_STOCK"

\* a release answered after its UPDATE matched no row
ZeroRows(r) ==
    /\ Done(r, "release")
    /\ resp[r].status # 200
    /\ resp[r].message # ErrCheckViolation

\* C9: a release of an unknown sku and a release of more than is reserved
\* get the same response, and neither changes a row.
C9_ReleaseIndistinguishable ==
    /\ [](\A r1, r2 \in Tasks : (ZeroRows(r1) /\ ZeroRows(r2)) => resp[r1] = resp[r2])
    /\ [][\A r \in Tasks :
            (Steps(r, "rl_update")
               /\ (req[r].sku \notin Known \/ ledger[req[r].sku].reserved < req[r].amount))
            => pc'[r] = "done" /\ resp'[r].status # 200 /\ ledger' = ledger]_vars

C9_Witness ==
    \E r1, r2 \in Tasks :
        /\ ZeroRows(r1) /\ req[r1].sku \notin Known
        /\ ZeroRows(r2) /\ req[r2].sku \in Known
        /\ req[r1].amount = req[r2].amount
        /\ ledger[req[r2].sku].reserved < req[r2].amount
        /\ resp[r1] = resp[r2]

\* C10: an adjust of a sku without a row is answered with the NotFound kind
\* (404 NOT_FOUND, as get_item answers), changes no row and deletes no
\* cache key.
C10_AdjustUnknownNotFound ==
    [][\A r \in Tasks :
         (Steps(r, "ad_update") /\ req[r].sku \notin Known)
         => /\ pc'[r] = "done"
            /\ resp'[r].status = 404
            /\ resp'[r].error = "NOT_FOUND"
            /\ ledger' = ledger
            /\ cache' = cache]_vars

\* the error codes an operation answers its business-rule failures with
BusinessKinds(op) ==
    CASE op = "reserve" -> {ReserveError(ErrSkuNotFound("Z")).error,
                            ReserveError(ErrInsufficient(0, 1)).error}
      [] op = "release" -> {into_response(FromAnyhow(ErrReleaseFailed)).error}
      [] op = "adjust"  -> {into_response(FromAnyhow(ErrSkuNotFound("Z"))).error}
      [] OTHER -> {}

\* C11: a reserve, release or adjust that failed in the storage layer (here:
\* an UPDATE rejected by a CHECK constraint) is answered with a 5xx status and
\* an error code that none of the operation's business-rule failures uses.
C11_StorageFailureIsServerFault ==
    \A r \in Tasks :
        (pc[r] = "done" /\ req[r].op \in {"reserve", "release", "adjust"}
            /\ resp[r].message = ErrCheckViolation)
        => /\ resp[r].status >= 500
           /\ resp[r].error \notin BusinessKinds(req[r].op)

\* the response of a request that ran into no error at all
NormalResult(r) ==
    CASE req[r].op = "get" ->
           IF req[r].sku \in Known
           THEN item[r].sku = req[r].sku /\ resp[r] = OkResponse(item[r])
           ELSE resp[r].status = 404
      [] req[r].op = "reserve" -> resp[r] = OkReservation(req[r].sku, req[r].amount)
      [] req[r].op = "release" -> resp[r] = OkReleased(req[r].sku, req[r].amount)
      [] req[r].op = "adjust" -> resp[r] = OkResponse(item[r]) /\ item[r].sku = req[r].sku
      [] OTHER -> FALSE

\* C12: a request one of whose Redis calls failed goes on (a failed GET is
\* followed by the read of the table) and is answered with its normal
\* result, never with an error caused by the cache.
C12_CacheFailureAbsorbed ==
    \A r \in Tasks :
        cacheErr[r] =>
            /\ pc[r] \in {"gt_db", "gt_set", "done"}
            /\ pc[r] = "gt_set" => item[r] = ledger[req[r].sku] \/ ledger[req[r].sku].ver > item[r].ver
            /\ pc[r] = "done" => resp[r].error # "CACHE_ERROR" /\ NormalResult(r)

C12_Witness ==
    \E r1, r2 \in Tasks :
        /\ cacheErr[r1] /\ Done(r1, "get") /\ resp[r1].status = 200
        /\ cache[req[r1].sku] = NoEntry
        /\ cacheErr[r2] /\ pc[r2] = "done" /\ req[r2].op \in {"reserve", "release", "adjust"}
        /\ resp[r2].status = 200

\* What a mutation does when it is run on the table alone, with no cache
\* at all: the row it leaves and the result it returns.
TableOnly(rq) ==
    LET s == rq.sku
        q == rq.amount
        fail(response) == [ok |-> FALSE, row |-> NoItem, resp |-> response]
    IN  CASE rq.op = "reserve" ->
               IF s \notin Known
               THEN fail(into_response(BadRequest(ErrSkuNotFound(s))))
               ELSE IF ledger[s].quantity - ledger[s].reserved < q
               THEN fail(into_response(BadRequest(
                        ErrInsufficient(ledger[s].quantity - ledger[s].reserved, q))))
               ELSE IF ~CheckConstraints([ledger[s] EXCEPT !.reserved = @ + q])
               THEN fail(into_response(BadRequest(ErrCheckViolation)))
               ELSE [ok |-> TRUE,
                     row |-> [ledger[s] EXCEPT !.reserved = @ + q, !.ver = @ + 1],
                     resp |-> OkReservation(s, q)]
          [] rq.op = "release" ->
               IF s \notin Known \/ ledger[s].reserved < q
               THEN fail(into_response(Internal(ErrReleaseFailed)))
               ELSE IF ~CheckConstraints([ledger[s] EXCEPT !.reserved = Max(@ - q, 0)])
               THEN fail(into_response(Internal(ErrCheckViolation)))
               ELSE [ok |-> TRUE,
                     row |-> [ledger[s] EXCEPT !.reserved = Max(@ - q, 0), !.ver = @ + 1],
                     resp |-> OkReleased(s, q)]
          [] rq.op = "adjust" ->
               IF s \notin Known
               THEN fail(into_response(Internal(ErrSkuNotFound(s))))
               ELSE IF ~CheckConstraints([ledger[s] EXCEPT !.quantity = Max(@ + q, 0)])
               THEN fail(into_response(Internal(ErrCheckViolation)))
               ELSE [ok |-> TRUE,
                     row |-> [ledger[s] EXCEPT !.quantity = Max(@ + q, 0), !.ver = @ + 1],
                     resp |-> OkResponse([ledger[s] EXCEPT !.quantity = Max(@ + q, 0),
                                                          !.ver = @ + 1])]

\* positions of a mutation before and after its write
BeforeWrite == {"rs_begin", "rs_select", "rs_check", "rs_commit", "rl_update", "ad_update"}
AfterWrite  == {"rs_del", "rl_del", "ad_del"}

\* C13: whatever the cache holds and whether its calls succeed or fail, a
\* step of a reserve, release or adjust leaves the table and returns the
\* result that the same request run on the table alone leaves and returns.
C13_MutationsIgnoreCache ==
    [][\A r \in Tasks :
         LET s == req[r].sku
             o == TableOnly(req[r])
             locking == pc[r] = "rs_begin" \/ (pc[r] = "rs_select" /\ s \in Known)
         IN  /\ (locking /\ pc'[r] # pc[r]) =>
                    pc'[r] \in {"rs_select", "rs_check"} /\ ledger' = ledger
             /\ (pc[r] \in BeforeWrite /\ ~locking /\ pc'[r] # pc[r]) =>
                    IF ~o.ok
                    THEN pc'[r] = "done" /\ resp'[r] = o.resp /\ ledger' = ledger
                    ELSE /\ pc'[r] # "done"
                         /\ \/ pc'[r] \in BeforeWrite /\ ledger' = ledger
                            \/ /\ pc'[r] \in AfterWrite
                               /\ ledger' = [ledger EXCEPT ![s] = o.row]
                               /\ req[r].op = "adjust" => OkResponse(item'[r]) = o.resp
             /\ (pc[r] \in AfterWrite /\ pc'[r] # pc[r]) =>
                    /\ pc'[r] = "done" /\ ledger' = ledger
                    /\ resp'[r] = CASE req[r].op = "reserve" -> OkReservation(s, req[r].amount)
                                    [] req[r].op = "release" -> OkReleased(s, req[r].amount)
                                    [] OTHER -> OkResponse(item[r])]_vars

\* a reserve and another mutation were both answered 200 while the cache held
\* an entry for the row that is garbage or older than the row
C13_Witness ==
    \E r \in Tasks :
        /\ Done(r, "reserve") /\ resp[r].status = 200
        /\ req[r].sku \in Known
        /\ cache[req[r].sku] # NoEntry
        /\ from_str(cache[req[r].sku].text).item # ledger[req[r].sku]
        /\ ledger[req[r].sku].ver = MaxVer

\* C14: a reserve of q >= 0 units of an existing sku whose quantity - reserved
\* is at least q goes through to its commit, the commit adds exactly q to
\* reserved and leaves quantity (so available drops by q), and it is
\* answered 200.
C14_ReserveAddsExactly ==
    [][\A r \in Tasks :
         LET s == req[r].sku
             q == req[r].amount
         IN  /\ (Steps(r, "rs_check") /\ q >= 0 /\ available(ledger[s]) >= q)
                    => pc'[r] = "rs_commit" /\ ledger' = ledger
             /\ Steps(r, "rs_commit")
                    => /\ pc'[r] = "rs_del"
                       /\ ledger'[s].reserved = ledger[s].reserved + q
                       /\ ledger'[s].quantity = ledger[s].quantity
                       /\ available(ledger'[s]) = available(ledger[s]) - q
                       /\ \A o \in Known \ {s} : ledger'[o] = ledger[o]
             /\ Steps(r, "rs_del")
                    => resp'[r] = OkReservation(s, q) /\ ledger' = ledger]_vars

\* quantity 2, reserved 0: a reserve of 1 left reserved 1, available 1, and
\* the reserve of 2 that followed was refused with available 1, requested 2
C14_Witness ==
    \E r \in Tasks :
        /\ Done(r, "reserve") /\ req[r].sku = "X" /\ req[r].amount = 2
        /\ resp[r].message = ErrInsufficient(1, 2)
        /\ ledger0["X"].quantity = 2 /\ ledger0["X"].reserved = 0
        /\ ledger["X"].quantity = 2 /\ ledger["X"].reserved = 1
        /\ ledger["X"].ver = 1

\* C15: a release of q >= 0 units succeeds exactly when the sku has a row
\* whose reserved is at least q; it then takes exactly q off reserved, leaves
\* quantity, and is answered 200; otherwise it is refused and no row changes.
C15_ReleaseIff ==
    [][\A r \in Tasks :
         LET s == req[r].sku
             q == req[r].amount
         IN  /\ (Steps(r, "rl_update") /\ q >= 0) =>
                    IF s \in Known /\ ledger[s].reserved >= q
                    THEN /\ pc'[r] = "rl_del"
                         /\ ledger'[s].reserved = ledger[s].reserved - q
                         /\ ledger'[s].quantity = ledger[s].quantity
                         /\ \A o \in Known \ {s} : ledger'[o] = ledger[o]
                    ELSE /\ pc'[r] = "done"
                         /\ resp'[r].status # 200
                         /\ ledger' = ledger
             /\ Steps(r, "rl_del")
                    => resp'[r] = OkReleased(s, q) /\ ledger' = ledger]_vars

\* a release of 1 out of 2 reserved units was answered 200 and left 1
C15_Witness ==
    \E r \in Tasks :
        /\ Done(r, "release") /\ resp[r].status = 200
        /\ req[r].sku = "X" /\ req[r].amount = 1
        /\ ledger0["X"].reserved = 2
        /\ ledger["X"].reserved = 1 /\ ledger["X"].quantity = 2
        /\ ledger["X"].ver = 1

\* C18: a get_item that finds no entry, or an entry that does not parse as
\* an InventoryItem, reads the table; for a sku with a row it returns the row
\* it read there and the SETEX, when Redis accepts it, stores that row's JSON
\* under the sku's key with a TTL of 5 minutes; for a sku without a row it
\* answers 404 NOT_FOUND and no entry is ever stored for such a sku.
C18_MissReadsLedgerAndPopulates ==
    /\ [](\A s \in Skus \ Known : cache[s] = NoEntry)
    /\ [][\A r \in Tasks :
            LET s == req[r].sku
            IN  /\ (Steps(r, "gt_cache")
                       /\ (cache[s] = NoEntry \/ ~from_str(cache[s].text).ok))
                      => pc'[r] = "gt_db" /\ resp'[r] = NoResp /\ cache' = cache
                /\ Steps(r, "gt_db") =>
                      IF s \in Known
                      THEN pc'[r] = "gt_set" /\ item'[r] = ledger[s] /\ cache' = cache
                      ELSE /\ pc'[r] = "done" /\ cache' = cache
                           /\ resp'[r].status = 404 /\ resp'[r].error = "NOT_FOUND"
                /\ Steps(r, "gt_set") =>
                      /\ resp'[r] = OkResponse(item[r])
                      /\ \/ cacheErr'[r] /\ cache' = cache
                         \/ /\ cache'[s].ttl = 5 * 60
                            /\ from_str(cache'[s].text) = [ok |-> TRUE, item |-> item[r]]
                            /\ \A o \in Skus \ {s} : cache'[o] = cache[o]]_vars

\* one get_item missed, read a row that had been mutated and stored it; another
\* asked for a sku without a row and was answered 404
C18_Witness ==
    \E r1, r2 \in Tasks :
        /\ Done(r1, "get") /\ resp[r1].status = 200 /\ ~cacheErr[r1]
        /\ item[r1] = resp[r1].item /\ item[r1].ver > 0
        /\ cache[req[r1].sku] = [text |-> to_string(item[r1]), ttl |-> CacheTtl]
        /\ Done(r2, "get") /\ resp[r2].status = 404 /\ req[r2].sku \notin Known

\* positions of a reserve whose caller went away while the row was locked
Dropped == {"rs_dropped", "rs_committing"}

\* C19: a reserve abandoned between taking the row lock and the commit has
\* its transaction ended: the end either writes the whole increment of
\* reserved or writes nothing, clears the transaction and gives the row lock
\* back; reserved always equals its initial value plus the committed
\* increments, no ended call holds a lock, and every abandoned call's
\* transaction does end.
C19_AbandonedReserveEnds ==
    /\ [](\A s \in Known :
            lock[s] # NoLock => pc[lock[s]] \in {"rs_check", "rs_commit"} \cup Dropped)
    /\ [](/\ ledger["X"].quantity = ledger0["X"].quantity
          /\ ledger["X"].reserved =
                ledger0["X"].reserved + Cardinality({r \in Reservers : wrote[r] # 0}))
    /\ [][\A r \in Reservers :
            (pc[r] \in Dropped /\ pc'[r] # pc[r]) =>
                /\ pc'[r] = "gone"
                /\ tx'[r] = NoItem
                /\ lock'[req[r].sku] = NoLock
                /\ \/ ledger' = ledger
                   \/ ledger' = [ledger EXCEPT ![req[r].sku] =
                                    [@ EXCEPT !.reserved = @ + req[r].amount, !.ver = @ + 1]]]_vars
    /\ \A r \in Reservers :
          (pc[r] \in Dropped) ~> (pc[r] = "gone" /\ lock[req[r].sku] # r)

\* one call was abandoned under the lock and rolled back, another was
\* abandoned during its commit and committed, and a third then took the
\* lock, reserved and was answered 200
C19_Witness ==
    \E r1, r2, r3 \in Tasks :
        /\ pc[r1] = "gone" /\ item[r1] # NoItem /\ wrote[r1] = 0
        /\ pc[r2] = "gone" /\ wrote[r2] = 1
        /\ pc[r3] = "done" /\ resp[r3].status = 200 /\ wrote[r3] = 2
        /\ item[r1].ver = 1
        /\ lock["X"] = NoLock

\* C16: the answer of low_stock_alerts holds one entry for each row whose
\* quantity - reserved in the table is below its low_stock_threshold and no
\* other entry, in ascending order of quantity - reserved, each entry's
\* available being the row's quantity - reserved in the table, whatever the
\* cache holds for the row.
C16_LowStockFromLedger ==
    \A r \in Tasks :
        Done(r, "alerts") =>
            LET out == resp[r].items
                n   == Len(out)
            IN  /\ resp[r].status = 200
                /\ {out[i].sku : i \in 1..n} =
                      {s \in DOMAIN ledger :
                          ledger[s].quantity - ledger[s].reserved < ledger[s].low_stock_threshold}
                /\ \A i, j \in 1..n : out[i].sku = out[j].sku => i = j
                /\ \A i, j \in 1..n : i < j => out[i].available <= out[j].available
                /\ \A i \in 1..n :
                      /\ out[i].available =
                            ledger[out[i].sku].quantity - ledger[out[i].sku].reserved
                      /\ out[i].threshold = ledger[out[i].sku].low_stock_threshold

\* two rows of different available are reported in that order, a row whose
\* available equals its threshold is left out, and the cache holds another
\* quantity for each of them
C16_Witness ==
    \E r \in Tasks :
        /\ Done(r, "alerts")
        /\ Len(resp[r].items) = 2
        /\ resp[r].items[1].available < resp[r].items[2].available
        /\ \E s \in DOMAIN ledger :
              /\ ledger[s].quantity - ledger[s].reserved = ledger[s].low_stock_threshold
              /\ ledger[s].reserved > 0
        /\ \A s \in DOMAIN ledger :
              /\ cache[s] # NoEntry
              /\ from_str(cache[s].text).item.quantity # ledger[s].quantity

\* number of rows whose sku sorts before s
Before(s) == Cardinality({o \in DOMAIN ledger : SkuRank(o) < SkuRank(s)})

\* C17: the answer of list(page, per_page) holds the table's rows in
\* ascending sku order, exactly those whose position in that order is in the
\* window of per_page positions after the first (page - 1) * per_page, and a
\* total equal to the number of rows; for that per_page every row is on
\* exactly one of the pages 1, 2, ... and once on it.
C17_ListWindow ==
    \A r \in Tasks :
        Done(r, "list") =>
            LET out    == resp[r].items
                n      == Len(out)
                per    == req[r].per_page
                offset == (req[r].page - 1) * per
                pages  == 1..(Cardinality(DOMAIN ledger) + 1)
            IN  /\ resp[r].status = 200
                /\ resp[r].total = Cardinality(DOMAIN ledger)
                /\ n <= per
                /\ \A i \in 1..n : out[i] = ledger[out[i].sku]
                /\ \A i, j \in 1..n : i < j => SkuRank(out[i].sku) < SkuRank(out[j].sku)
                /\ {out[i].sku : i \in 1..n} =
                      {s \in DOMAIN ledger : Before(s) >= offset /\ Before(s) < offset + per}
                /\ \A s \in DOMAIN ledger :
                      Cardinality({pi \in pages \X (1..per) :
                          LET page == list_items(ledger, pi[1], per).items
                          IN  pi[2] <= Len(page) /\ page[pi[2]].sku = s}) = 1

\* three rows listed two to a page: page 2 holds the third row alone
C17_Witness ==
    \E r \in Tasks :
        /\ Done(r, "list")
        /\ req[r].page = 2 /\ req[r].per_page = 2
        /\ resp[r].total = 3
        /\ Len(resp[r].items) = 1
        /\ resp[r].items[1].sku = Catalog[3]

\* calls that hold or wait for the row lock of sku s
AtLock(s) ==
    {r \in Tasks : req[r].op = "reserve" /\ req[r].sku = s
                     /\ pc[r] \in {"rs_select", "rs_check", "rs_commit"}}

\* C20 as stated: however many reserve calls hold or wait for the row lock of
\* "X", a request for another sku that has not been answered can take its
\* next step at once.
C20_NeverBlockedByOtherSku ==
    \A r \in Tasks :
        (req[r].sku # "X" /\ pc[r] \notin {"idle", "done"}) => ENABLED TaskStep(r)

\* C20 amended: a request that has not been answered can take its next step
\* at once unless that step needs a pooled connection and all max_connections
\* are checked out, or it is a reserve waiting for the row lock of its own
\* sku; the row lock of another sku never holds it up.
C20_BlockedOnlyByPoolOrOwnRow ==
    \A r \in Tasks :
        (pc[r] \notin {"idle", "done"} /\ ~ENABLED TaskStep(r)) =>
            \/ pc[r] \in Acquiring /\ InUse = max_connections
            \/ /\ pc[r] = "rs_select"
               /\ lock[req[r].sku] \notin {NoLock, r}

\* nine reserve calls hold or wait for the row lock of "X" and a reserve of
\* "Y" has been through its transaction and was answered 200
C20_Witness ==
    \E r \in Tasks :
        /\ Done(r, "reserve") /\ req[r].sku = "Y" /\ resp[r].status = 200
        /\ ledger["Y"].reserved = ledger0["Y"].reserved + 1
        /\ Cardinality(AtLock("X")) = max_connections - 1
        /\ lock["X"] # NoLock

\* C21: whatever quantity the request carries, the commit of a reserve never
\* leaves reserved smaller than it was and the UPDATE of a successful
\* release never leaves it larger.
C21_ReserveUpReleaseDown ==
    [][\A r \in Tasks :
         LET s == req[r].sku
         IN  /\ Steps(r, "rs_commit") => ledger'[s].reserved >= ledger[s].reserved
             /\ (Steps(r, "rl_update") /\ pc'[r] = "rl_del")
                    => ledger'[s].reserved <= ledger[s].reserved]_vars

\* C23: an entry lives CacheTtl from the SETEX that stored it and a hit
\* does not renew it, so a value is served no longer than one TTL after the
\* mutation that made it stale exactly when no SETEX stores, with a full
\* TTL ahead of it, a value that the row has already left behind.  Stated
\* for a SETEX that comes after the last mutation of the row was answered,
\* its invalidation attempt included.
C23_NoStaleValueStored ==
    [][\A r \in Tasks :
         LET s == req[r].sku
         IN  (Steps(r, "gt_set") /\ ~cacheErr'[r] /\ returned[s] = ledger[s].ver)
                => from_str(cache'[s].text).item = ledger[s]]_vars

\* C27: a reserve, release or adjust touches the cache in one step only, the
\* one that follows its committed write; that step is taken once, ends the
\* request whether Redis accepted the DEL or not, and can only remove the
\* entry of the request's sku; a request whose mutation failed is answered
\* without any step that touches the cache.
C27_OneDeleteAfterCommit ==
    [][\A r \in Tasks :
         LET s == req[r].sku
         IN  /\ (pc[r] \in BeforeWrite /\ pc'[r] # pc[r]) =>
                    /\ cache' = cache /\ cacheErr'[r] = cacheErr[r]
                    /\ pc'[r] = "done" => resp'[r].status # 200 /\ wrote'[r] = 0
                    /\ pc'[r] \in AfterWrite => ledger'[s].ver = wrote'[r] /\ wrote'[r] > 0
             /\ (pc[r] \in AfterWrite /\ pc'[r] # pc[r]) =>
                    /\ pc'[r] = "done" /\ resp'[r].status = 200
                    /\ ledger[s].ver >= wrote[r] /\ wrote[r] > 0
                    /\ \/ cacheErr'[r] /\ cache' = cache
                       \/ ~cacheErr'[r] /\ cache' = [cache EXCEPT ![s] = NoEntry]]_vars

\* a release whose DEL Redis refused was answered 200 with the entry still
\* in place, and an adjust of the same sku failed and made no Redis call
C27_Witness ==
    \E r1, r2 \in Tasks :
        /\ Done(r1, "release") /\ resp[r1].status = 200 /\ cacheErr[r1]
        /\ cache[req[r1].sku] # NoEntry
        /\ Done(r2, "adjust") /\ resp[r2].status # 200 /\ ~cacheErr[r2]
        /\ req[r2].sku = req[r1].sku

\* C28: a get_item whose GET returns a text that parses as an InventoryItem
\* answers 200 with that item in the same step, reads no row and writes
\* nothing to the cache.
C28_HitTouchesNothing ==
    [][\A r \in Tasks :
         LET s == req[r].sku
             parsed == from_str(cache[s].text)
         IN  (Steps(r, "gt_cache") /\ parsed.ok /\ ~cacheErr'[r])
                => /\ pc'[r] = "done"
                   /\ resp'[r] = OkResponse(parsed.item)
                   /\ item'[r] = NoItem
                   /\ cache' = cache
                   /\ ledger' = ledger]_vars

\* a hit was answered with the cached item although the row had moved on
C28_Witness ==
    \E r \in Tasks :
        /\ Done(r, "get") /\ resp[r].status = 200 /\ item[r] = NoItem
        /\ cache[req[r].sku].text = to_string(resp[r].item)
        /\ resp[r].item # ledger[req[r].sku]

\* C29: an adjust of an existing sku succeeds when max(0, quantity + delta) is
\* not below reserved; it then stores that quantity, leaves reserved, and
\* answers 200 with the row as the UPDATE stored it.
C29_AdjustStoresClamped ==
    [][\A r \in Tasks :
         LET s == req[r].sku
             d == req[r].amount
         IN  /\ (Steps(r, "ad_update") /\ s \in Known
                    /\ Max(0, ledger[s].quantity + d) >= ledger[s].reserved)
                   => /\ pc'[r] = "ad_del"
                      /\ ledger'[s].quantity = Max(0, ledger[s].quantity + d)
                      /\ ledger'[s].reserved = ledger[s].reserved
                      /\ item'[r] = ledger'[s]
             /\ Steps(r, "ad_del") => resp'[r] = OkResponse(item[r])]_vars

\* an adjust of -2 on quantity 1 stored 0 and was answered with quantity 0
C29_Witness ==
    \E r \in Tasks :
        /\ Done(r, "adjust") /\ resp[r].status = 200
        /\ req[r].amount < 0
        /\ ledger0[req[r].sku].quantity + req[r].amount < 0
        /\ resp[r].item.quantity = 0
        /\ ledger[req[r].sku] = resp[r].item

\* the number a PORT text denotes when it denotes a 16-bit unsigned number
PortNumber(t) ==
    CASE t = <<"0">> -> 0
      [] t = <<"9", "0", "0", "0">> -> 9000
      [] t = <<"0", "0", "8", "0">> -> 80
      [] t = <<"+", "8", "0">> -> 80
      [] t = <<"6", "5", "5", "3", "5">> -> 65535
      [] OTHER -> -1

\* C24: with DATABASE_URL and REDIS_URL not malformed, from_env fails when
\* one of them is unset or when PORT is set to something that is not a
\* 16-bit unsigned number, and otherwise returns the number of PORT, or 8002
\* when PORT is unset, with the two URLs as they are in the environment.
C24_FromEnv ==
    \A r \in Tasks :
        (Done(r, "from_env") /\ req[r].env["DATABASE_URL"] # NotUnicode
            /\ req[r].env["REDIS_URL"] # NotUnicode) =>
            LET e    == req[r].env
                port == IF ~e["PORT"].set THEN 8002
                        ELSE IF ~e["PORT"].unicode THEN -1
                        ELSE PortNumber(e["PORT"].text)
            IN  IF ~e["DATABASE_URL"].set \/ ~e["REDIS_URL"].set \/ port = -1
                THEN ~resp[r].ok
                ELSE resp[r] = [ok |-> TRUE, port |-> port,
                                database_url |-> e["DATABASE_URL"].text,
                                redis_url |-> e["REDIS_URL"].text]

\* C22: after any sequence of reserve, release, adjust, get, list and
\* low-stock calls the table holds a row for exactly the skus it held at the
\* start, each row under its own sku, and no two rows with the same sku.
C22_SameSkus ==
    /\ DOMAIN ledger = DOMAIN ledger0
    /\ \A s \in DOMAIN ledger : ledger[s].sku = s
    /\ \A s, t \in DOMAIN ledger : ledger[s].sku = ledger[t].sku => s = t

\* both rows have been mutated as often as the bounds allow, a call for a sku
\* without a row has just been refused, and the table still has its two rows
C22_Witness ==
    /\ DOMAIN ledger = {"A", "B"}
    /\ \A s \in DOMAIN ledger : ledger[s].ver = MaxVer
    /\ \E r \in Tasks : Done(r, "adjust") /\ req[r].sku \notin Known

\* columns no call writes
Immutable(row) ==
    <<row.id, row.sku, row.name, row.warehouse, row.low_stock_threshold, row.created_at>>

\* C30: a step of a call for sku S leaves every row but that of S as it is;
\* in the row of S a reserve or release leaves quantity, an adjust leaves
\* reserved, a read leaves everything, and none of them changes id, sku,
\* name, warehouse, low_stock_threshold or created_at.
C30_FrameOfMutations ==
    [][\A r \in Tasks :
         pc'[r] # pc[r] =>
            /\ DOMAIN ledger' = DOMAIN ledger
            /\ \A k \in DOMAIN ledger :
                  /\ k # req[r].sku => ledger'[k] = ledger[k]
                  /\ Immutable(ledger'[k]) = Immutable(ledger[k])
                  /\ req[r].op \in {"reserve", "release"}
                        => ledger'[k].quantity = ledger[k].quantity
                  /\ req[r].op = "adjust" => ledger'[k].reserved = ledger[k].reserved
                  /\ req[r].op \notin {"reserve", "release", "adjust"}
                        => ledger'[k] = ledger[k]]_vars

\* "A" has been reserved, released and adjusted away from its first values
\* while "B" is as it was
C30_Witness ==
    /\ DOMAIN ledger = {"A", "B"}
    /\ ledger["A"].ver = MaxVer
    /\ ledger["A"].quantity # ledger0["A"].quantity
    /\ ledger["A"].reserved # ledger0["A"].reserved
    /\ ledger["B"] = ledger0["B"]
    /\ ledger["B"].reserved > 0
    /\ \E r \in Tasks : Done(r, "release") /\ req[r].sku = "A" /\ resp[r].status = 200
                            /\ req[r].amount > 0 /\ ledger["B"].reserved >= req[r].amount

\* What one mutation, run with the row to itself, leaves of the row and
\* returns: the statements of reserve_stock, release_stock and adjust_stock
\* applied to the given row.
Alone(row, rq) ==
    LET q == rq.amount
        fail(response) == [row |-> row, resp |-> response]
    IN  CASE rq.op = "reserve" ->
               IF available(row) < q
               THEN fail(into_response(BadRequest(ErrInsufficient(available(row), q))))
               ELSE IF ~CheckConstraints(ReserveUpdate(row, q))
               THEN fail(into_response(BadRequest(ErrCheckViolation)))
               ELSE [row |-> ReserveUpdate(row, q), resp |-> OkReservation(rq.sku, q)]
          [] rq.op = "release" ->
               IF row.reserved < q
               THEN fail(into_response(Internal(ErrReleaseFailed)))
               ELSE IF ~CheckConstraints(ReleaseUpdate(row, q))
               THEN fail(into_response(Internal(ErrCheckViolation)))
               ELSE [row |-> ReleaseUpdate(row, q), resp |-> OkReleased(rq.sku, q)]
          [] OTHER ->
               IF ~CheckConstraints(AdjustUpdate(row, rq.amount))
               THEN fail(into_response(Internal(ErrCheckViolation)))
               ELSE [row |-> AdjustUpdate(row, q), resp |-> OkResponse(AdjustUpdate(row, q))]

\* the orders in which the tasks can be run one after the other
Orders == {o \in [1..Cardinality(Tasks) -> Tasks] : \A i, j \in DOMAIN o : o[i] = o[j] => i = j}

\* the row after the first n calls of the order have run one at a time,
\* starting from the row as it was at the start
RECURSIVE RowAfter(_, _)
RowAfter(o, n) ==
    IF n = 0 THEN ledger0["X"] ELSE Alone(RowAfter(o, n - 1), req[o[n]]).row

\* row left and responses given when the calls run one at a time in order o
Serially(o) ==
    [row  |-> RowAfter(o, Cardinality(Tasks)),
     resp |-> [r \in Tasks |->
                 LET n == CHOOSE i \in DOMAIN o : o[i] = r
                 IN  Alone(RowAfter(o, n - 1), req[r]).resp]]

\* C25: when concurrent reserve, release and adjust calls on one sku have all
\* been answered, some order of running them one at a time gives each call
\* the same answer and leaves the same quantity and reserved.
C25_SerialOrderExists ==
    (\A r \in Tasks : pc[r] = "done") =>
        \E o \in Orders :
            /\ Serially(o).resp = resp
            /\ Serially(o).row.quantity = ledger["X"].quantity
            /\ Serially(o).row.reserved = ledger["X"].reserved

\* a reserve and an adjust have both been answered, one with success and one
\* without, and running them in the other order would have ended otherwise
C25_Witness ==
    /\ \A r \in Tasks : pc[r] = "done"
    /\ \E r1, r2 \in Tasks :
          /\ req[r1].op = "reserve" /\ resp[r1].status = 200
          /\ req[r2].op = "adjust" /\ resp[r2].status # 200
    /\ \E o1, o2 \in Orders : Serially(o1) # Serially(o2)

\* positions of a reserve whose transaction is open
InTx == {"rs_select", "rs_check", "rs_commit", "rs_dropped", "rs_committing"}

\* C26: a reserve whose row is locked by another transaction takes no step
\* and gets no answer while the lock is held; every reserve whose
\* transaction is open sooner or later has it committed or rolled back and
\* holds no lock afterwards; and whenever a lock is held its holder can take
\* a step, so no group of reserves waits for one another.
C26_ReserveWaitsAndEnds ==
    /\ [][\A r \in Tasks :
            (pc[r] = "rs_select" /\ lock[req[r].sku] \notin {NoLock, r})
               => (pc'[r] = pc[r] /\ resp'[r] = NoResp)]_vars
    /\ \A r \in Reservers :
          (pc[r] \in InTx) ~> (pc[r] \notin InTx /\ tx[r] = NoItem /\ lock[req[r].sku] # r)
    /\ [](\A s \in Known :
            lock[s] # NoLock =>
               ENABLED (RsCheck(lock[s]) \/ RsCommit(lock[s]) \/ Abandon(lock[s])
                           \/ EndTx(lock[s])))
    /\ []((\E r \in Tasks : pc[r] \in InTx) => ENABLED NextAbandon)

\* every call has ended and the row is unlocked: one that had to wait for
\* two others committed the third unit, and one that waited was refused
C26_Witness ==
    /\ \A r \in Tasks : pc[r] \in {"done", "gone"}
    /\ lock["X"] = NoLock
    /\ \E r1, r2 \in Tasks :
          /\ pc[r1] = "done" /\ resp[r1].status = 200 /\ item[r1].ver = 1 /\ wrote[r1] = 2
          /\ pc[r2] = "done" /\ resp[r2].status = 400 /\ item[r2].ver = 2

\* C39: when a reserve request has been answered, the one status it had
\* counted as an HTTP request is the status of the response it returned, and
\* it counted exactly one reservation, as "success" for a 200 and as "failed"
\* otherwise.
C39_RecordedStatusIsReturned ==
    \A r \in Tasks :
        Done(r, "reserve") =>
            /\ metrics[r].http = <<resp[r].status>>
            /\ metrics[r].reservations =
                  <<IF resp[r].status = 200 THEN "success" ELSE "failed">>

\* C34: a list call that is answered with a list was queried with, and
\* reports, page 1 when the page parameter is below 1 and the parameter
\* itself otherwise, and per_page 1 when the per_page parameter is below 1,
\* PerPageCap when it is above PerPageCap and the parameter itself otherwise;
\* the list holds at most per_page, hence at most PerPageCap, records.
C34_ListClampsParams ==
    \A r \in Tasks :
        (Done(r, "list") /\ resp[r].status = 200) =>
            LET p == req[r].params.page
                n == req[r].params.per_page
                page == IF p < 1 THEN 1 ELSE p
                per_page == IF n < 1 THEN 1 ELSE IF n > PerPageCap THEN PerPageCap ELSE n
            IN  /\ req[r].page = page /\ req[r].per_page = per_page
                /\ resp[r].page = page /\ resp[r].per_page = per_page
                /\ Len(resp[r].items) <= per_page
                /\ Len(resp[r].items) <= PerPageCap

\* a call with a negative page and a per_page above the cap has been
\* answered with page 1, per_page PerPageCap and all three rows
C34_Witness ==
    \E r \in Tasks :
        /\ Done(r, "list") /\ resp[r].status = 200
        /\ req[r].params.page < 0 /\ req[r].params.per_page > PerPageCap
        /\ resp[r].page = 1 /\ resp[r].per_page = PerPageCap
        /\ Len(resp[r].items) = 3

\* C38 as stated: a list call whose page is at least 1 and whose per_page is
\* in 1..PerPageCap after the handler's clamping has its offset computed
\* without i32 overflow, the offset is not negative, and the call is
\* answered with the list.
C38_OffsetFitsI32 ==
    \A r \in Tasks :
        (req[r].op = "list" /\ req[r].page >= 1 /\ req[r].per_page \in 1..PerPageCap) =>
            /\ ~offset_i32(req[r].page, req[r].per_page).overflow
            /\ offset_i32(req[r].page, req[r].per_page).value >= 0
            /\ pc[r] # "panicked"

RECURSIVE SumCommitted(_, _)
SumCommitted(op, rs) ==
    IF rs = {} THEN 0
    ELSE LET r == CHOOSE x \in rs : TRUE
         IN  (IF req[r].op = op /\ wrote[r] # 0 THEN req[r].amount ELSE 0)
                + SumCommitted(op, rs \ {r})

\* C36: when every reserve and release asks for a positive quantity, the
\* row's reserved is its initial value plus the quantities of the committed
\* reserves minus the quantities of the committed releases, at every moment
\* of every interleaving of reserve, release and adjust calls.
C36_ReservedIsConserved ==
    (\A r \in Tasks : req[r].op \in {"reserve", "release"} => req[r].amount > 0) =>
        ledger["X"].reserved =
            ledger0["X"].reserved + SumCommitted("reserve", Tasks)
                - SumCommitted("release", Tasks)

\* a reserve of two and a release of one have both been committed, next to
\* each other, and reserved has gone up by one
C36_Witness ==
    /\ \A r \in Tasks : pc[r] = "done" /\ resp[r].status = 200
    /\ \E r1, r2 \in Tasks :
          /\ req[r1].op = "reserve" /\ req[r1].amount = 2
          /\ req[r2].op = "release" /\ req[r2].amount = 1
    /\ ledger["X"].reserved = ledger0["X"].reserved + 1

\* the versions of the row of s that have been committed so far, when the
\* only writes are reserves of one unit
Committed(s) ==
    {[ledger0[s] EXCEPT !.reserved = @ + k, !.ver = k] : k \in 0..ledger[s].ver}

\* C37: next to reserve transactions that are open, committed or rolled
\* back, the cache entry of a sku is a committed version of its row, and so
\* is every row that get_item, the list and the low-stock alerts have
\* returned; the row written by a transaction that has not committed is
\* none of them.
C37_OnlyCommittedRowsSeen ==
    /\ \A s \in Known :
          cache[s] # NoEntry =>
             (from_str(cache[s].text).ok /\ from_str(cache[s].text).item \in Committed(s))
    /\ \A r \in Tasks :
          /\ (Done(r, "get") /\ resp[r].status = 200) => resp[r].item \in Committed(req[r].sku)
          /\ Done(r, "list") =>
                \A i \in 1..Len(resp[r].items) :
                    resp[r].items[i] \in Committed(resp[r].items[i].sku)
          /\ Done(r, "alerts") =>
                \A i \in 1..Len(resp[r].items) :
                    \E row \in Committed(resp[r].items[i].sku) :
                        resp[r].items[i] = LowStockAlert(row)
          /\ tx[r] # NoItem => tx[r] \notin Committed(req[r].sku)

\* while one reserve has written the row in a transaction that is still
\* open and the other was rolled back, the cache holds the row as it was
\* first committed and a get_item has returned that row
C37_Witness ==
    /\ \E r1, r2 \in Tasks :
          /\ pc[r1] = "rs_commit" /\ tx[r1] # NoItem
          /\ pc[r2] = "gone" /\ wrote[r2] = 0 /\ item[r2] # NoItem
    /\ cache["A"] # NoEntry /\ from_str(cache["A"].text).item = ledger0["A"]
    /\ \E r \in Tasks : Done(r, "get") /\ resp[r].item = ledger0["A"]

\* C31 as stated: every step that changes a row leaves its updated_at at the
\* time of that step; updated_at never decreases and is never earlier than
\* created_at; a step that does not change the row (a failed operation, a
\* read) leaves updated_at as it was.
C31_UpdatedAtIsMutationTime ==
    [][\A s \in Known :
          /\ ledger'[s].updated_at >= ledger[s].updated_at
          /\ ledger'[s].updated_at >= ledger'[s].created_at
          /\ ledger'[s] # ledger[s] => ledger'[s].updated_at = clock.now
          /\ ledger'[s].updated_at # ledger[s].updated_at =>
                \E r \in Mutators :
                    /\ req[r].sku = s
                    /\ pc[r] \in {"rs_commit", "rl_update", "ad_update"}
                    /\ pc'[r] \in {"rs_del", "rl_del", "ad_del"}]_vars

\* C32: reserved changes only in the step that commits a reserve of that sku
\* or applies a release of that sku; every other step, among them the clock
\* passing a reservation's expires_at, a read, a list, an alert query and an
\* adjust, leaves reserved as it was.
C32_ReservedChangesOnlyByReserveOrRelease ==
    [][\A s \in Known :
          ledger'[s].reserved # ledger[s].reserved =>
              \E r \in Mutators :
                  /\ req[r].sku = s
                  /\ \/ req[r].op = "reserve" /\ pc[r] = "rs_commit" /\ pc'[r] = "rs_del"
                     \/ req[r].op = "release" /\ pc[r] = "rl_update" /\ pc'[r] = "rl_del"]_vars

\* a confirmed reservation is past its expires_at, the other call was an
\* adjust and a read has been answered, and the units are still reserved
C32_Witness ==
    \E r \in Mutators :
        /\ Done(r, "reserve") /\ resp[r].status = 200
        /\ clock.now > resp[r].expires_at[1]
        /\ \E r2 \in Mutators : Done(r2, "adjust") /\ resp[r2].status = 200
        /\ pc[Reader] = "done"
        /\ ledger[req[r].sku].reserved = ledger0[req[r].sku].reserved + req[r].amount

\* C33 as stated: a confirmed reservation carries the sku and the quantity of
\* the request, and an expires_at that is present and exactly ExpiryHours
\* after its created_at.
C33_ConfirmationExpiresAfter24Hours ==
    \A r \in Mutators :
        (Done(r, "reserve") /\ resp[r].status = 200) =>
            /\ resp[r].item.sku = req[r].sku
            /\ resp[r].item.quantity = req[r].amount
            /\ Len(resp[r].expires_at) = 1
            /\ resp[r].expires_at[1] = resp[r].created_at + ExpiryHours

====
